---- MODULE Spec2Model ----
(***************************************************************************)
(* hermes_dec: the per-function lifting pipeline of the Hermes bytecode    *)
(* decompiler.  disassemble_function decodes a bytecode slab into          *)
(* InstructionInfo records, construct_flow_graph builds the                *)
(* instruction-level graph, construct_cfg coalesces it into basic blocks   *)
(* and AstGenerator lifts the blocks to JavaScript statements.             *)
(*                                                                         *)
(* Node and instruction indices are 0-based as in the source; a TLA+       *)
(* sequence s holds element i of the source at s[i + 1].                   *)
(***************************************************************************)
EXTENDS Integers, Sequences, FiniteSets, TLC

VARIABLES
    bytecode,       \* disassemble_function: the slab read by read_bytecode
    position,       \* disassemble_function: bytecode_cursor.position()
    decoded,        \* disassemble_function: the `instructions` vector being filled
    dis_pc,         \* disassemble_function: "idle" | "reading" | "returned" | "panicked"
    instructions,   \* the driver's `disassembled` list handed to the graph builders
    flow_graph,     \* the driver's `flow_graph`
    cfg,            \* the driver's `cfg`
    ast,            \* the statements collected from the AstGenerator
    pc,             \* the driver's position in main.rs disassemble_function
    test_expr,      \* jump_inst_to_test: the Expr returned for instructions[1]
    lower_result,   \* simple_instructions_to_ast: the outcome for block 0 of cfg
    container,      \* the bytecode container handed to BytecodeFile::from_reader
    file,           \* the Result<BytecodeFile, io::Error> of from_reader
    string_result,  \* the outcome of BytecodeFile::get_string
    buffer,         \* the bytes under the shared seekable reader
    function_header,\* the function header a reader helper is called on
    reader_position,\* the stream position of the shared seekable reader
    called,         \* the helper that ran on the file or the reader, and its outcome
    gen,            \* the AstGenerator being iterated, *self of Iterator::next
    yielded,        \* the statements next has returned so far
    gen_start,      \* the arguments of AstGenerator::new for the first generator
    file_bytes,     \* the byte buffer handed to both loader entry points
    bytes_loaded,   \* the outcome of BytecodeFile::from_bytes(&file_bytes)
    reader_loaded   \* the outcome of BytecodeFile::from_reader(&mut Cursor::new(&file_bytes))

\* the variables of the container loader and of the reader helpers
file_vars == <<container, file, string_result, buffer, function_header, reader_position,
               called>>

\* the variables of the generator iterated one step at a time
gen_vars == <<gen, yielded, gen_start>>

\* the variables of the two loader entry points run on one buffer
load_vars == <<file_bytes, bytes_loaded, reader_loaded>>

\* the variables outside the per-function pipeline
aux_vars == <<test_expr, lower_result, file_vars, gen_vars, load_vars>>

vars == <<bytecode, position, decoded, dis_pc, instructions, flow_graph, cfg, ast, pc,
          aux_vars>>

(***************************************************************************)
(* Bounds of the model.                                                    *)
(***************************************************************************)
MaxLen == 4         \* longest enumerated instruction list
MaxJumps == 2       \* most jump instructions in an enumerated list
MaxRel == 5         \* enumerated relative offsets are -MaxRel..MaxRel
MaxSlab == 5        \* longest enumerated bytecode slab, in bytes
MaxDepth == 12      \* deepest nesting of AstGenerator collections followed
MaxReg == 1         \* registers r0..rMaxReg are read by the tested branches
MaxNum == 1         \* register values include the numbers 0..MaxNum
MaxBlock == 2       \* longest block lowered on its own
MaxStrings == 1     \* most entries of an enumerated string table
MaxStorage == 2     \* longest enumerated string storage, in bytes
MaxHandlers == 1    \* most exception handlers stored for a function
MaxFunctions == 1   \* most function headers of an enumerated file

NoIndex == -1       \* Option::None of an index

(***************************************************************************)
(* Sequence helpers.                                                       *)
(***************************************************************************)
Reverse(s) == [i \in 1..Len(s) |-> s[Len(s) + 1 - i]]

Last(s) == s[Len(s)]

RECURSIVE SumSeq(_)
SumSeq(s) == IF s = <<>> THEN 0 ELSE Head(s) + SumSeq(Tail(s))

RECURSIVE Flatten(_)
Flatten(ss) == IF ss = <<>> THEN <<>> ELSE Head(ss) \o Flatten(Tail(ss))

Range(s) == {s[i] : i \in 1..Len(s)}

(***************************************************************************)
(* The v93 instruction set (bytecode/v93.rs), restricted to the opcodes    *)
(* the model uses.  The opcode byte of a variant is its position in the    *)
(* enum; the operand types are the variant's field types in order.         *)
(***************************************************************************)
ModelOps ==
    {"Unreachable", "NewArray", "Inc", "Ret", "Throw", "LoadConstUInt8",
     "LoadConstTrue", "LoadConstFalse", "LoadConstZero", "Jmp", "JmpLong", "JmpTrue",
     "JmpFalse", "CallDirect", "ConstructLong", "CallBuiltin", "Catch", "ThrowIfEmpty",
     "LoadConstBigInt", "CreateRegExp", "SwitchImm", "StartGenerator", "IteratorBegin",
     "Loadi8", "Store8"}

Opcode(op) ==
    CASE op = "Unreachable"    -> 0
      [] op = "NewArray"       -> 7
      [] op = "Inc"            -> 37
      [] op = "Ret"            -> 90
      [] op = "Throw"          -> 93
      [] op = "LoadConstUInt8" -> 108
      [] op = "LoadConstTrue"  -> 118
      [] op = "LoadConstFalse" -> 119
      [] op = "LoadConstZero"  -> 120
      [] op = "Jmp"            -> 140
      [] op = "JmpLong"        -> 141
      [] op = "JmpTrue"        -> 142
      [] op = "JmpFalse"       -> 144
      [] op = "CallDirect" -> 80
      [] op = "ConstructLong" -> 85
      [] op = "CallBuiltin" -> 87
      [] op = "Catch" -> 91
      [] op = "ThrowIfEmpty" -> 94
      [] op = "LoadConstBigInt" -> 111
      [] op = "CreateRegExp" -> 130
      [] op = "SwitchImm" -> 131
      [] op = "StartGenerator" -> 132
      [] op = "IteratorBegin" -> 137
      [] op = "Loadi8" -> 195
      [] op = "Store8" -> 201

OperandTypes(op) ==
    CASE op = "Unreachable"    -> <<>>
      [] op = "NewArray"       -> <<"u8", "u16">>
      [] op = "Inc"            -> <<"u8", "u8">>
      [] op = "Ret"            -> <<"u8">>
      [] op = "Throw"          -> <<"u8">>
      [] op = "LoadConstUInt8" -> <<"u8", "u8">>
      [] op = "LoadConstTrue"  -> <<"u8">>
      [] op = "LoadConstFalse" -> <<"u8">>
      [] op = "LoadConstZero"  -> <<"u8">>
      [] op = "Jmp"            -> <<"i8">>
      [] op = "JmpLong"        -> <<"i32">>
      [] op = "JmpTrue"        -> <<"i8", "u8">>
      [] op = "JmpFalse"       -> <<"i8", "u8">>
      [] op = "CallDirect" -> <<"u8", "u8", "u16">>
      [] op = "ConstructLong" -> <<"u8", "u8", "u32">>
      [] op = "CallBuiltin" -> <<"u8", "u8", "u8">>
      [] op = "Catch" -> <<"u8">>
      [] op = "ThrowIfEmpty" -> <<"u8", "u8">>
      [] op = "LoadConstBigInt" -> <<"u8", "u16">>
      [] op = "CreateRegExp" -> <<"u8", "u32", "u32", "u32">>
      [] op = "SwitchImm" -> <<"u8", "u32", "i32", "u32", "u32">>
      [] op = "StartGenerator" -> <<>>
      [] op = "IteratorBegin" -> <<"u8", "u8">>
      [] op = "Loadi8" -> <<"u8", "u8", "u8">>
      [] op = "Store8" -> <<"u8", "u8", "u8">>

\* help_macros: the width table of get_bytecode_size_tokens
TypeSize(ty) ==
    CASE ty = "u8"   -> 1
      [] ty = "i8"   -> 1
      [] ty = "u16"  -> 2
      [] ty = "i32"  -> 4
      [] ty = "u32"  -> 4
      [] ty = "f64"  -> 8
      [] ty = "bool" -> 1

\* InstructionSet::get_bytecode_size, by opcode name: the sum of the operand widths
get_bytecode_size(op) ==
    SumSeq([k \in 1..Len(OperandTypes(op)) |-> TypeSize(OperandTypes(op)[k])])

(***************************************************************************)
(* Instruction classes of construct_flow_graph's match.                    *)
(***************************************************************************)
UncondJumps == {"Jmp", "JmpLong"}

CondJumps ==
    {"JmpTrue", "JmpTrueLong", "JmpFalse", "JmpFalseLong", "JmpUndefined",
     "JmpUndefinedLong", "JLess", "JLessLong", "JNotLess", "JNotLessLong", "JLessN",
     "JLessNLong", "JNotLessN", "JNotLessNLong", "JLessEqual", "JLessEqualLong",
     "JNotLessEqual", "JNotLessEqualLong", "JLessEqualN", "JLessEqualNLong",
     "JNotLessEqualN", "JNotLessEqualNLong", "JGreater", "JGreaterLong", "JNotGreater",
     "JNotGreaterLong", "JGreaterN", "JGreaterNLong", "JNotGreaterN",
     "JNotGreaterNLong", "JGreaterEqual", "JGreaterEqualLong", "JNotGreaterEqual",
     "JNotGreaterEqualLong", "JGreaterEqualN", "JGreaterEqualNLong",
     "JNotGreaterEqualN", "JNotGreaterEqualNLong", "JEqual", "JEqualLong", "JNotEqual",
     "JNotEqualLong", "JStrictEqual", "JStrictEqualLong", "JStrictNotEqual",
     "JStrictNotEqualLong"}

Terminators == {"Ret", "Throw"}

(***************************************************************************)
(* InstructionInfo lists.  An element is                                   *)
(*   [offset, op, relative_offset, a, b]                                   *)
(* where a and b are the first and second non-offset operands (0 when the  *)
(* variant has none) and relative_offset is 0 for a variant without one.   *)
(***************************************************************************)
Instr(op, rel, a, b) == [op |-> op, relative_offset |-> rel, a |-> a, b |-> b]

\* the offsets disassemble_function assigns: the cursor position before each opcode
RECURSIVE WithOffsets(_, _)
WithOffsets(list, at) ==
    IF list = <<>> THEN <<>>
    ELSE <<[offset |-> at, op |-> Head(list).op,
            relative_offset |-> Head(list).relative_offset,
            a |-> Head(list).a, b |-> Head(list).b]>>
         \o WithOffsets(Tail(list), at + 1 + get_bytecode_size(Head(list).op))

(***************************************************************************)
(* petgraph::Graph: node count and the edge list in insertion order.       *)
(* edges_directed and neighbors walk a node's edges newest first.          *)
(***************************************************************************)
Edge(s, t, w) == [src |-> s, dst |-> t, w |-> w]

Outgoing(g, v) == Reverse(SelectSeq(g.edges, LAMBDA e : e.src = v))

Incoming(g, v) == Reverse(SelectSeq(g.edges, LAMBDA e : e.dst = v))

(***************************************************************************)
(* graphs.rs: get_instruction_by_offset                                    *)
(***************************************************************************)
Signum(x) == IF x > 0 THEN 1 ELSE IF x < 0 THEN -1 ELSE 0

RECURSIVE OffsetWalk(_, _, _, _)
OffsetWalk(list, current_instruction_index, end_offset, step) ==
    IF current_instruction_index < Len(list)
    THEN IF list[current_instruction_index + 1].offset = end_offset
         THEN current_instruction_index
         ELSE IF current_instruction_index = 0
              THEN NoIndex
              ELSE OffsetWalk(list, current_instruction_index + step, end_offset, step)
    ELSE NoIndex

\* u32::wrapping_add_signed on an instruction offset.  A negative sum wraps to
\* 2^32 + sum, which lies above every offset of a slab; it is kept here as the
\* negative sum, which likewise equals no offset.
WrappingAddSigned(offset, relative_offset) == offset + relative_offset

get_instruction_by_offset(list, current_instruction_index, relative_offset) ==
    OffsetWalk(list, current_instruction_index,
               WrappingAddSigned(list[current_instruction_index + 1].offset,
                                 relative_offset),
               Signum(relative_offset))

(***************************************************************************)
(* graphs.rs: construct_flow_graph.  The result is [ok, n, edges]; ok is   *)
(* FALSE when an unwrap of get_instruction_by_offset panics.               *)
(***************************************************************************)
\* InstrEdges with a fallthrough edge added after an unconditional jump
InstrEdgesJmpFallsThrough(list, i) ==
    LET ins == list[i + 1]
        target == get_instruction_by_offset(list, i, ins.relative_offset)
        fallthrough == IF i < Len(list) - 1 THEN <<Edge(i, i + 1, FALSE)>> ELSE <<>>
    IN  IF ins.op \in UncondJumps THEN <<Edge(i, target, FALSE)>> \o fallthrough
        ELSE IF ins.op \in CondJumps THEN <<Edge(i, target, TRUE)>> \o fallthrough
        ELSE IF ins.op \in Terminators THEN <<>>
        ELSE fallthrough

InstrEdges(list, i) ==
    LET ins == list[i + 1]
        target == get_instruction_by_offset(list, i, ins.relative_offset)
        fallthrough == IF i < Len(list) - 1 THEN <<Edge(i, i + 1, FALSE)>> ELSE <<>>
    IN  IF ins.op \in UncondJumps THEN <<Edge(i, target, FALSE)>>
        ELSE IF ins.op \in CondJumps THEN <<Edge(i, target, TRUE)>> \o fallthrough
        ELSE IF ins.op \in Terminators THEN <<>>
        ELSE fallthrough

InstrPanics(list, i) ==
    /\ list[i + 1].op \in UncondJumps \cup CondJumps
    /\ get_instruction_by_offset(list, i, list[i + 1].relative_offset) = NoIndex

construct_flow_graph(list) ==
    IF \E i \in 0..(Len(list) - 1) : InstrPanics(list, i)
    THEN [ok |-> FALSE, n |-> Len(list), edges |-> <<>>]
    ELSE [ok |-> TRUE, n |-> Len(list),
          edges |-> Flatten([k \in 1..Len(list) |-> InstrEdges(list, k - 1)])]

(***************************************************************************)
(* graphs.rs: construct_cfg, the block-forming traversal.  petgraph's      *)
(* Dfs::next pops the stack until an undiscovered node, marks it and       *)
(* pushes its undiscovered neighbours; the loop body then runs on it.      *)
(* `visited` of the source holds exactly the nodes Dfs has returned, which *)
(* is `discovered`.                                                        *)
(***************************************************************************)
\* CfgFlush that does not end the block when the single successor was visited
CfgFlushIgnoresVisited(g, vertex, discovered) ==
    LET out == Outgoing(g, vertex)
    IN  Len(out) >= 2 \/ Len(out) = 0

CfgFlush(g, vertex, discovered) ==
    LET out == Outgoing(g, vertex)
    IN  \/ Len(out) >= 2
        \/ Len(out) = 0
        \/ Len(out) = 1 /\ out[1].dst \in discovered

\* SplitBefore that never ends the block before a join point
SplitBeforeNever(g, vertex, current_block) == FALSE

\* the block is ended before a vertex with two or more incoming edges
SplitBefore(g, vertex, current_block) ==
    Len(Incoming(g, vertex)) >= 2 /\ current_block # <<>>

RECURSIVE CfgDfs(_, _, _, _, _)
CfgDfs(g, stack, discovered, current_block, blocks) ==
    IF stack = <<>> THEN blocks
    ELSE
      LET vertex == Last(stack)
          rest == SubSeq(stack, 1, Len(stack) - 1)
      IN  IF vertex \in discovered
          THEN CfgDfs(g, rest, discovered, current_block, blocks)
          ELSE
            LET seen == discovered \cup {vertex}
                succs == [k \in 1..Len(Outgoing(g, vertex)) |-> Outgoing(g, vertex)[k].dst]
                pushed == SelectSeq(succs, LAMBDA t : t \notin seen)
                split_before == SplitBefore(g, vertex, current_block)
                blocks1 == IF split_before THEN Append(blocks, current_block) ELSE blocks
                block1 == Append(IF split_before THEN <<>> ELSE current_block, vertex)
            IN  IF CfgFlush(g, vertex, seen)
                THEN CfgDfs(g, rest \o pushed, seen, <<>>, Append(blocks1, block1))
                ELSE CfgDfs(g, rest \o pushed, seen, block1, blocks1)

CfgBlocks(g) == CfgDfs(g, <<0>>, {}, <<>>, <<>>)

(***************************************************************************)
(* graphs.rs: construct_cfg, the edge propagation.  `set` maps each source *)
(* of an edge into the block's first instruction to the weight inserted    *)
(* last, which is the weight of the oldest such edge.                      *)
(***************************************************************************)
\* IncomingSet that keeps the weight inserted first (the newest edge's)
IncomingSetKeepsFirst(g, index) ==
    [s \in {e.src : e \in Range(Incoming(g, index))} |->
        Head(SelectSeq(Incoming(g, index), LAMBDA e : e.src = s)).w]

IncomingSet(g, index) ==
    [s \in {e.src : e \in Range(Incoming(g, index))} |->
        Last(SelectSeq(Incoming(g, index), LAMBDA e : e.src = s)).w]

\* CfgEdgesInto with the edge added from the head's block to the tail's block
CfgEdgesIntoReversed(g, blocks, i) ==
    LET set == IncomingSet(g, blocks[i + 1][1])
        hit(i2) == Last(blocks[i2 + 1]) \in DOMAIN set
    IN  Flatten([k \in 1..Len(blocks) |->
                   IF hit(k - 1)
                   THEN <<Edge(i, k - 1, set[Last(blocks[k])])>>
                   ELSE <<>>])

CfgEdgesInto(g, blocks, i) ==
    LET set == IncomingSet(g, blocks[i + 1][1])
        hit(i2) == Last(blocks[i2 + 1]) \in DOMAIN set
    IN  Flatten([k \in 1..Len(blocks) |->
                   IF hit(k - 1)
                   THEN <<Edge(k - 1, i, set[Last(blocks[k])])>>
                   ELSE <<>>])

construct_cfg(g) ==
    LET blocks == CfgBlocks(g)
    IN  [blocks |-> blocks,
         n |-> Len(blocks),
         edges |-> Flatten([k \in 1..Len(blocks) |-> CfgEdgesInto(g, blocks, k - 1)])]

(***************************************************************************)
(* The swc_ecma_ast values the generator builds.  Expressions are tagged   *)
(* tuples, statements are records with a tag t.                            *)
(***************************************************************************)
Ident(n) == <<"ident", n>>                 \* the identifier r<n>
Num(v) == <<"num", v>>
BoolLit(v) == <<"bool", v>>
ArrayLit == <<"array">>
Assign(l, r) == <<"assign", l, r>>
PostInc(e) == <<"update++", e>>
Bin(o, l, r) == <<"bin", o, l, r>>
Bang(e) == <<"unary!", e>>
Paren(e) == <<"paren", e>>

ExprStmt(e) == [t |-> "expr", expr |-> e]
ReturnStmt(e) == [t |-> "return", arg |-> e]
ThrowStmt(e) == [t |-> "throw", arg |-> e]
ContinueStmt == [t |-> "continue"]
IfStmt(test, cons) == [t |-> "if", test |-> test, cons |-> cons, has_alt |-> FALSE, alt |-> <<>>]
IfElseStmt(test, cons, alt) ==
    [t |-> "if", test |-> test, cons |-> cons, has_alt |-> TRUE, alt |-> alt]
WhileStmt(test, body) == [t |-> "while", test |-> test, body |-> body]
DoWhileStmt(test, body) == [t |-> "dowhile", test |-> test, body |-> body]

(***************************************************************************)
(* generate_ast.rs: simple_instructions_to_ast, one instruction.           *)
(***************************************************************************)
LoadConstTrueLiteral == BoolLit(FALSE)

LowerInstruction(ins) ==
    CASE ins.op = "LoadConstUInt8" -> <<ExprStmt(Assign(Ident(ins.a), Num(ins.b)))>>
      [] ins.op = "LoadConstZero"  -> <<ExprStmt(Assign(Ident(ins.a), Num(0)))>>
      [] ins.op = "LoadConstFalse" -> <<ExprStmt(Assign(Ident(ins.a), BoolLit(FALSE)))>>
      [] ins.op = "LoadConstTrue"  -> <<ExprStmt(Assign(Ident(ins.a), LoadConstTrueLiteral))>>
      [] ins.op = "NewArray"       -> <<ExprStmt(Assign(Ident(ins.a), ArrayLit))>>
      [] ins.op = "Inc" ->
            IF ins.a = ins.b
            THEN <<ExprStmt(PostInc(Ident(ins.b)))>>
            ELSE <<ExprStmt(Assign(Ident(ins.a), Bin("+", Ident(ins.b), Num(1))))>>
      [] ins.op = "Ret"   -> <<ReturnStmt(Ident(ins.a))>>
      [] ins.op = "Throw" -> <<ThrowStmt(Ident(ins.a))>>
      [] OTHER -> <<>>     \* Unreachable, Jmp, JmpLong and the conditional jumps

simple_instructions_to_ast(c, node, list) ==
    Flatten([k \in 1..Len(c.blocks[node + 1]) |->
               LowerInstruction(list[c.blocks[node + 1][k] + 1])])

\* variants whose arm is todo!(): one of each group (calls by index and
\* builtins, Catch, ThrowIfEmpty, big integers, regular expressions, SwitchImm,
\* generators, iterators, typed loads and stores)
UnsupportedOps ==
    {"CallDirect", "ConstructLong", "CallBuiltin", "Catch", "ThrowIfEmpty",
     "LoadConstBigInt",
     "CreateRegExp", "SwitchImm", "StartGenerator", "IteratorBegin", "Loadi8", "Store8"}

\* the panic message of todo!(), in parts
TodoMessage == <<"not yet implemented">>

\* simple_instructions_to_ast with its panic: the first todo!() arm reached
\* unwinds out of the function and no statement vector is returned
LowerBlock(c, node, list) ==
    IF \E k \in 1..Len(c.blocks[node + 1]) :
           list[c.blocks[node + 1][k] + 1].op \in UnsupportedOps
    THEN [status |-> "panic", stmts |-> <<>>, message |-> TodoMessage]
    ELSE [status |-> "ok", stmts |-> simple_instructions_to_ast(c, node, list),
          message |-> <<>>]

(***************************************************************************)
(* generate_ast.rs: jump_inst_to_test; every other variant panics.         *)
(***************************************************************************)
\* the variants jump_inst_to_test has an arm for
TestableOps ==
    {"JmpTrue", "JmpTrueLong", "JmpFalse", "JmpFalseLong", "JmpUndefined",
     "JmpUndefinedLong", "JLess", "JLessLong", "JNotLess", "JNotLessLong", "JLessN",
     "JLessNLong", "JNotLessN", "JNotLessNLong", "JLessEqual", "JLessEqualLong",
     "JNotLessEqual", "JNotLessEqualLong", "JLessEqualN", "JLessEqualNLong",
     "JNotLessEqualN", "JNotLessEqualNLong", "JGreater", "JGreaterLong", "JNotGreater",
     "JNotGreaterLong", "JGreaterN", "JGreaterNLong", "JNotGreaterN",
     "JNotGreaterNLong", "JGreaterEqual", "JGreaterEqualLong", "JNotGreaterEqual",
     "JNotGreaterEqualLong", "JGreaterEqualN", "JGreaterEqualNLong",
     "JNotGreaterEqualN", "JNotGreaterEqualNLong", "JEqual", "JEqualLong", "JNotEqual",
     "JNotEqualLong", "JStrictEqual", "JStrictEqualLong", "JStrictNotEqual",
     "JStrictNotEqualLong"}

IsTestable(ins) == ins.op \in TestableOps

\* the identifier `undefined` of the JmpUndefined arms
UndefinedIdent == <<"global", "undefined">>

\* NotTest that loses the negation
NotTestPlain(e) == Paren(e)

\* the expression of the JNot... arms: Unary(Bang, Paren(e))
NotTest(e) == Bang(Paren(e))

\* jump_inst_to_test that gives JmpFalse the test of JmpTrue
jump_inst_to_test_unnegated(ins) ==
    LET a == Ident(ins.a)
        b == Ident(ins.b)
    IN  CASE ins.op \in {"JmpTrue", "JmpTrueLong"} -> a
          [] ins.op \in {"JmpFalse", "JmpFalseLong"} -> a
          [] ins.op \in {"JmpUndefined", "JmpUndefinedLong"} -> Bin("===", a, UndefinedIdent)
          [] ins.op \in {"JLess", "JLessLong", "JLessN", "JLessNLong"} -> Bin("<", a, b)
          [] ins.op \in {"JNotLess", "JNotLessLong", "JNotLessN", "JNotLessNLong"} ->
                NotTest(Bin("<", a, b))
          [] ins.op \in {"JLessEqual", "JLessEqualLong", "JLessEqualN", "JLessEqualNLong"} ->
                Bin("<=", a, b)
          [] ins.op \in {"JNotLessEqual", "JNotLessEqualLong", "JNotLessEqualN",
                         "JNotLessEqualNLong"} -> NotTest(Bin("<=", a, b))
          [] ins.op \in {"JGreater", "JGreaterLong", "JGreaterN", "JGreaterNLong"} ->
                Bin(">", a, b)
          [] ins.op \in {"JNotGreater", "JNotGreaterLong", "JNotGreaterN",
                         "JNotGreaterNLong"} -> NotTest(Bin(">", a, b))
          [] ins.op \in {"JGreaterEqual", "JGreaterEqualLong", "JGreaterEqualN",
                         "JGreaterEqualNLong"} -> Bin(">=", a, b)
          [] ins.op \in {"JNotGreaterEqual", "JNotGreaterEqualLong", "JNotGreaterEqualN",
                         "JNotGreaterEqualNLong"} -> NotTest(Bin(">=", a, b))
          [] ins.op \in {"JEqual", "JEqualLong"} -> Bin("==", a, b)
          [] ins.op \in {"JNotEqual", "JNotEqualLong"} -> Bin("!=", a, b)
          [] ins.op \in {"JStrictEqual", "JStrictEqualLong"} -> Bin("===", a, b)
          [] ins.op \in {"JStrictNotEqual", "JStrictNotEqualLong"} -> Bin("!==", a, b)
          [] OTHER -> <<"panic">>

jump_inst_to_test(ins) ==
    LET a == Ident(ins.a)
        b == Ident(ins.b)
    IN  CASE ins.op \in {"JmpTrue", "JmpTrueLong"} -> a
          [] ins.op \in {"JmpFalse", "JmpFalseLong"} -> Bang(a)
          [] ins.op \in {"JmpUndefined", "JmpUndefinedLong"} -> Bin("===", a, UndefinedIdent)
          [] ins.op \in {"JLess", "JLessLong", "JLessN", "JLessNLong"} -> Bin("<", a, b)
          [] ins.op \in {"JNotLess", "JNotLessLong", "JNotLessN", "JNotLessNLong"} ->
                NotTest(Bin("<", a, b))
          [] ins.op \in {"JLessEqual", "JLessEqualLong", "JLessEqualN", "JLessEqualNLong"} ->
                Bin("<=", a, b)
          [] ins.op \in {"JNotLessEqual", "JNotLessEqualLong", "JNotLessEqualN",
                         "JNotLessEqualNLong"} -> NotTest(Bin("<=", a, b))
          [] ins.op \in {"JGreater", "JGreaterLong", "JGreaterN", "JGreaterNLong"} ->
                Bin(">", a, b)
          [] ins.op \in {"JNotGreater", "JNotGreaterLong", "JNotGreaterN",
                         "JNotGreaterNLong"} -> NotTest(Bin(">", a, b))
          [] ins.op \in {"JGreaterEqual", "JGreaterEqualLong", "JGreaterEqualN",
                         "JGreaterEqualNLong"} -> Bin(">=", a, b)
          [] ins.op \in {"JNotGreaterEqual", "JNotGreaterEqualLong", "JNotGreaterEqualN",
                         "JNotGreaterEqualNLong"} -> NotTest(Bin(">=", a, b))
          [] ins.op \in {"JEqual", "JEqualLong"} -> Bin("==", a, b)
          [] ins.op \in {"JNotEqual", "JNotEqualLong"} -> Bin("!=", a, b)
          [] ins.op \in {"JStrictEqual", "JStrictEqualLong"} -> Bin("===", a, b)
          [] ins.op \in {"JStrictNotEqual", "JStrictNotEqualLong"} -> Bin("!==", a, b)
          [] OTHER -> <<"panic">>

(***************************************************************************)
(* generate_ast.rs: add_inside_while with the queue it is given.  The      *)
(* generator calls populate_next_stage only on an empty stmt_queue, so     *)
(* to_add is always empty and nothing is inserted; what remains is the     *)
(* traversal, which panics on a statement kind it does not handle.         *)
(***************************************************************************)
RECURSIVE AddInsideWhilePanics(_)
AddInsideWhilePanics(body) ==
    \E k \in 1..Len(body) :
        \/ body[k].t \notin {"continue", "if", "expr", "return"}
        \/ /\ body[k].t = "if"
           /\ \/ AddInsideWhilePanics(body[k].cons)
              \/ body[k].has_alt /\ AddInsideWhilePanics(body[k].alt)

(***************************************************************************)
(* Graph searches of populate_next_stage.                                  *)
(***************************************************************************)
Succs(c, v) == [k \in 1..Len(Outgoing(c, v)) |-> Outgoing(c, v)[k].dst]

\* nodes a Dfs or Bfs from `from` returns when the nodes of `blocked` count as discovered
RECURSIVE ReachFrom(_, _, _)
ReachFrom(c, frontier, seen) ==
    LET next == {e.dst : e \in {x \in Range(c.edges) : x.src \in frontier}} \ seen
    IN  IF next = {} THEN seen ELSE ReachFrom(c, next, seen \cup next)

\* Dfs from node 0 with self.node marked discovered beforehand
ReachableAvoiding(c, node) ==
    IF node = 0 THEN {} ELSE ReachFrom(c, {0}, {0, node}) \ {node}

\* Bfs::new(cfg, from) reaching `to`
Reaches(c, from, to) == to \in ReachFrom(c, {from}, {from})

\* LoopCandidate that counts the start node among its own predecessors
RECURSIVE LoopCandidateCountsStart(_, _, _, _, _)
LoopCandidateCountsStart(c, stack, discovered, finished, edges_from) ==
    IF stack = <<>> THEN NoIndex
    ELSE
      LET nx == Last(stack)
          rest == SubSeq(stack, 1, Len(stack) - 1)
      IN  IF nx \notin discovered
          THEN LoopCandidateCountsStart(c,
                   stack \o SelectSeq(Succs(c, nx), LAMBDA t : t \notin discovered \cup {nx}),
                   discovered \cup {nx}, finished, edges_from)
          ELSE IF nx \in finished
               THEN LoopCandidateCountsStart(c, rest, discovered, finished, edges_from)
               ELSE IF nx \in edges_from \cup {stack[1]}
                    THEN nx
                    ELSE LoopCandidateCountsStart(c, rest, discovered, finished \cup {nx},
                                                  edges_from)

\* DfsPostOrder::next repeated until a node of edges_from is returned
RECURSIVE LoopCandidate(_, _, _, _, _)
LoopCandidate(c, stack, discovered, finished, edges_from) ==
    IF stack = <<>> THEN NoIndex
    ELSE
      LET nx == Last(stack)
          rest == SubSeq(stack, 1, Len(stack) - 1)
      IN  IF nx \notin discovered
          THEN LoopCandidate(c,
                   stack \o SelectSeq(Succs(c, nx), LAMBDA t : t \notin discovered \cup {nx}),
                   discovered \cup {nx}, finished, edges_from)
          ELSE IF nx \in finished
               THEN LoopCandidate(c, rest, discovered, finished, edges_from)
               ELSE IF nx \in edges_from
                    THEN nx
                    ELSE LoopCandidate(c, rest, discovered, finished \cup {nx}, edges_from)

\* TruTarget that keeps the edge labelled false
TruTargetTakesFalseEdge(c, v) ==
    LET es == SelectSeq(Outgoing(c, v), LAMBDA e : ~e.w)
    IN  IF es = <<>> THEN NoIndex ELSE Last(es).dst

\* the (tru, fals) pair picked from a node's outgoing edges; NoIndex where unwrap panics
TruTarget(c, v) ==
    LET es == SelectSeq(Outgoing(c, v), LAMBDA e : e.w)
    IN  IF es = <<>> THEN NoIndex ELSE Last(es).dst

FalsTarget(c, v) ==
    LET es == SelectSeq(Outgoing(c, v), LAMBDA e : ~e.w)
    IN  IF es = <<>> THEN NoIndex ELSE Last(es).dst

(***************************************************************************)
(* generate_ast.rs: AstGenerator collected to a Vec<Stmt>.                 *)
(*                                                                         *)
(* Collect(c, list, node, first, wc, dwc, depth) is                        *)
(*   AstGenerator::new(f, cfg, instructions, node, first, wc, dwc)         *)
(*       .collect::<Vec<Stmt>>()                                           *)
(* with first = is_do_while_first_block, wc = while_cond_block,            *)
(* dwc = do_while_cond_block (NoIndex for None).  Iterator::next yields    *)
(* the queued statements, runs populate_next_stage when the queue is       *)
(* empty, and when that returns false either becomes the chained iterator  *)
(* or returns None.  The result is                                         *)
(*   status  "ok", "panic" (an unwrap, panic! or unimplemented! fired) or  *)
(*           "diverged" (more than `depth` generators were created on one  *)
(*           path),                                                        *)
(*   stmts   the collected statements,                                     *)
(*   ret     is_last_instruction_return of the generator left in *self     *)
(*           when next returned None.                                      *)
(* A stage result also says whether *self was replaced by a chained        *)
(* iterator.                                                               *)
(***************************************************************************)
Result(status, stmts, ret) == [status |-> status, stmts |-> stmts, ret |-> ret]

Stage(status, stmts, ret, chained) ==
    [status |-> status, stmts |-> stmts, ret |-> ret, chained |-> chained]

\* the statements already queued, then the chained iterator takes over
ChainTo(queued, res) ==
    IF res.status = "ok"
    THEN Stage("ok", queued \o res.stmts, res.ret, TRUE)
    ELSE Stage(res.status, <<>>, FALSE, TRUE)

\* the statements already queued, and no chained iterator
NoChain(queued) == Stage("ok", queued, FALSE, FALSE)

Failed(status) == Stage(status, <<>>, FALSE, FALSE)

\* IsReturnOrThrow that never sets is_last_instruction_return
IsReturnOrThrowNever(stmt) == FALSE

IsReturnOrThrow(stmt) == stmt.t \in {"return", "throw"}

RECURSIVE Collect(_, _, _, _, _, _, _)
RECURSIVE LoopCheck(_, _, _, _, _, _, _)
RECURSIVE IfCheck(_, _, _, _, _, _)

\* AstGeneratorStage::IfCheck and AstGeneratorStage::AfterIf
IfCheck(c, list, node, wc, dwc, depth) ==
    LET outgoing_edges == Outgoing(c, node)
        flow_index == Last(c.blocks[node + 1])
        tru == TruTarget(c, node)
        fals == FalsTarget(c, node)
        test == jump_inst_to_test(list[flow_index + 1])
        from_tru == Collect(c, list, tru, FALSE, wc, dwc, depth - 1)
        from_fals == Collect(c, list, fals, FALSE, wc, dwc, depth - 1)
        skip_else_false == Reaches(c, fals, tru)
        skip_else_true == ~skip_else_false /\ Reaches(c, tru, fals)
    IN  IF Len(outgoing_edges) = 2
        THEN IF tru = NoIndex \/ fals = NoIndex \/ ~IsTestable(list[flow_index + 1])
             THEN Failed("panic")
             ELSE IF skip_else_false
             THEN IF from_tru.status # "ok" THEN Failed(from_tru.status)
                  ELSE ChainTo(<<IfStmt(test, from_tru.stmts)>>, from_fals)
             ELSE IF skip_else_true
             THEN IF from_fals.status # "ok" THEN Failed(from_fals.status)
                  ELSE ChainTo(<<IfStmt(Bang(Paren(test)), from_fals.stmts)>>, from_tru)
             ELSE IF from_tru.status # "ok" THEN Failed(from_tru.status)
             ELSE IF from_tru.ret
             THEN ChainTo(<<IfStmt(test, from_tru.stmts)>>, from_fals)
             ELSE IF from_fals.status # "ok" THEN Failed(from_fals.status)
             ELSE NoChain(<<IfElseStmt(test, from_tru.stmts, from_fals.stmts)>>)
        ELSE IF Len(outgoing_edges) = 1
        THEN ChainTo(<<>>, Collect(c, list, outgoing_edges[1].dst, FALSE, wc, dwc, depth - 1))
        ELSE NoChain(<<>>)

\* AstGeneratorStage::LoopCheck
LoopCheck(c, list, node, first, wc, dwc, depth) ==
    LET indecies == c.blocks[node + 1]
        flow_index == Last(indecies)
        incoming_edges == Incoming(c, node)
        edges_from == {e.src : e \in Range(incoming_edges)}
        before == ReachableAvoiding(c, node)
        possible_loop_condition_index ==
            LoopCandidate(c, <<node>>, before, before, edges_from)
        cond_index == Last(c.blocks[possible_loop_condition_index + 1])
        skip_do_while_check == list[cond_index + 1].op = "Jmp"
        index == IF skip_do_while_check THEN flow_index ELSE cond_index
        loop_cond_index ==
            IF skip_do_while_check THEN node ELSE possible_loop_condition_index
        cond == jump_inst_to_test(list[index + 1])
        tru == TruTarget(c, loop_cond_index)
        fals == FalsTarget(c, loop_cond_index)
        do_body == Collect(c, list, node, TRUE, NoIndex, possible_loop_condition_index,
                           depth - 1)
        while_body == Collect(c, list, fals, FALSE, node, dwc, depth - 1)
    IN  IF ~first /\ Len(incoming_edges) >= 2 /\ possible_loop_condition_index # NoIndex
        THEN IF ~IsTestable(list[index + 1]) \/ tru = NoIndex \/ fals = NoIndex
             THEN Failed("panic")
             ELSE IF tru = node
             THEN IF do_body.status # "ok" THEN Failed(do_body.status)
                  ELSE ChainTo(<<DoWhileStmt(Paren(cond), do_body.stmts)>>,
                               Collect(c, list, fals, FALSE, NoIndex, NoIndex, depth - 1))
             ELSE IF while_body.status # "ok" THEN Failed(while_body.status)
             ELSE IF Len(indecies) > 1 /\ AddInsideWhilePanics(while_body.stmts)
             THEN Failed("panic")
             ELSE ChainTo(<<WhileStmt(Bang(Paren(cond)), while_body.stmts)>>,
                          Collect(c, list, tru, FALSE, NoIndex, dwc, depth - 1))
        ELSE IfCheck(c, list, node, wc, dwc, depth)

\* AstGeneratorStage::BeginProcessBlock, then the later stages
Collect(c, list, node, first, wc, dwc, depth) ==
    LET lowered == simple_instructions_to_ast(c, node, list)
        later == LoopCheck(c, list, node, first, wc, dwc, depth)
    IN  IF depth = 0 THEN Result("diverged", <<>>, FALSE)
        ELSE IF wc = node THEN Result("ok", <<>>, FALSE)
        ELSE IF LowerBlock(c, node, list).status = "panic" THEN Result("panic", <<>>, FALSE)
        ELSE IF dwc = node THEN Result("ok", <<>>, FALSE)
        ELSE IF later.status # "ok" THEN Result(later.status, <<>>, FALSE)
        ELSE Result("ok", lowered \o later.stmts,
                    IF later.chained THEN later.ret
                    ELSE \E k \in 1..Len(lowered) : IsReturnOrThrow(lowered[k]))

\* the driver's generate_ast(f, &cfg, &disassembled, NodeIndex::new(0), false, None, None)
generate_ast(c, list) == Collect(c, list, 0, FALSE, NoIndex, NoIndex, MaxDepth)

(***************************************************************************)
(* hermes_file_reader.rs: disassemble_function with help_macros'           *)
(* read_opcode.  Bytes are 0..255.                                         *)
(***************************************************************************)
OpOfByte(byte) == CHOOSE op \in ModelOps : Opcode(op) = byte

IsOpcode(byte) == \E op \in ModelOps : Opcode(op) = byte

\* ReadWidth that reads a u16 field with the one-byte reader
ReadWidthShortU16(ty) ==
    CASE ty = "u8"   -> 1
      [] ty = "i8"   -> 1
      [] ty = "u16"  -> 1
      [] ty = "i32"  -> 4
      [] ty = "u32"  -> 4
      [] ty = "f64"  -> 8
      [] ty = "bool" -> 1

\* help_macros: the reader chosen per field type by read_opcode_tokens, as a width
ReadWidth(ty) ==
    CASE ty = "u8"   -> 1
      [] ty = "i8"   -> 1
      [] ty = "u16"  -> 2
      [] ty = "i32"  -> 4
      [] ty = "u32"  -> 4
      [] ty = "f64"  -> 8
      [] ty = "bool" -> 1

RECURSIVE LittleEndian(_)
LittleEndian(bs) == IF bs = <<>> THEN 0 ELSE Head(bs) + 256 * LittleEndian(Tail(bs))

\* the value a field reader returns for the bytes it consumed
\* (two's complement for i8 and i32: the top byte carries the sign)
ReadValue(ty, bs) ==
    LET top == Last(bs)
        signed_top == IF top >= 128 THEN top - 256 ELSE top
    IN  CASE ty = "i8"  -> signed_top
          [] ty = "i32" -> LittleEndian(SubSeq(bs, 1, 3)) + 16777216 * signed_top
          [] OTHER      -> LittleEndian(bs)

\* the fields of a variant read in declaration order from `at`;
\* ok is FALSE when a read crosses the end of the slab (unwrap panics)
RECURSIVE ReadFields(_, _, _)
ReadFields(bytes, at, types) ==
    IF types = <<>> THEN [ok |-> TRUE, values |-> <<>>, at |-> at]
    ELSE IF at + ReadWidth(Head(types)) > Len(bytes)
    THEN [ok |-> FALSE, values |-> <<>>, at |-> Len(bytes)]
    ELSE LET value == ReadValue(Head(types),
                                SubSeq(bytes, at + 1, at + ReadWidth(Head(types))))
             more == ReadFields(bytes, at + ReadWidth(Head(types)), Tail(types))
         IN  [ok |-> more.ok, values |-> <<value>> \o more.values, at |-> more.at]

\* InstructionInfo that records the cursor position after the opcode byte
InstructionInfoAfterOpcode(offset, op, values) ==
    LET is_jump == op \in UncondJumps \cup CondJumps
        rest == IF is_jump THEN Tail(values) ELSE values
    IN  [offset |-> offset + 1, op |-> op,
         relative_offset |-> IF is_jump THEN Head(values) ELSE 0,
         a |-> IF Len(rest) >= 1 THEN rest[1] ELSE 0,
         b |-> IF Len(rest) >= 2 THEN rest[2] ELSE 0]

\* the InstructionInfo pushed for a variant read at `offset`
InstructionInfo(offset, op, values) ==
    LET is_jump == op \in UncondJumps \cup CondJumps
        rest == IF is_jump THEN Tail(values) ELSE values
    IN  [offset |-> offset, op |-> op,
         relative_offset |-> IF is_jump THEN Head(values) ELSE 0,
         a |-> IF Len(rest) >= 1 THEN rest[1] ELSE 0,
         b |-> IF Len(rest) >= 2 THEN rest[2] ELSE 0]

\* one turn of `while !bytecode_cursor.is_empty()`
ReadOpcode ==
    /\ dis_pc = "reading"
    /\ position < Len(bytecode)
    /\ LET opcode == bytecode[position + 1]
           fields == ReadFields(bytecode, position + 1, OperandTypes(OpOfByte(opcode)))
       IN  IF IsOpcode(opcode) /\ fields.ok
           THEN /\ decoded' = Append(decoded,
                                     InstructionInfo(position, OpOfByte(opcode), fields.values))
                /\ position' = fields.at
                /\ dis_pc' = "reading"
           ELSE /\ dis_pc' = "panicked"
                /\ UNCHANGED <<decoded, position>>
    /\ UNCHANGED aux_vars
    /\ UNCHANGED <<bytecode, instructions, flow_graph, cfg, ast, pc>>

\* the loop ends and Ok(instructions) reaches the driver
ReturnInstructions ==
    /\ dis_pc = "reading"
    /\ position >= Len(bytecode)
    /\ dis_pc' = "returned"
    /\ instructions' = decoded
    /\ pc' = IF decoded = <<>> THEN "empty" ELSE "disassembled"
    /\ UNCHANGED <<bytecode, position, decoded, flow_graph, cfg, ast>>
    /\ UNCHANGED aux_vars

(***************************************************************************)
(* main.rs: disassemble_function, the driver after the disassembly.        *)
(***************************************************************************)
NoGraph == [ok |-> FALSE, n |-> 0, edges |-> <<>>]
NoCfg == [blocks |-> <<>>, n |-> 0, edges |-> <<>>]
NoAst == Result("none", <<>>, FALSE)
NoTest == <<"none">>

\* nothing outside the pipeline is in use
NoLowered == [status |-> "none", stmts |-> <<>>, message |-> <<>>]

\* no container is being loaded and no helper has run on the reader
NoContainer == [magic |-> "", version |-> 0, entries |-> <<>>, overflow |-> <<>>,
                storage |-> <<>>, available |-> 0]
NoFile == [status |-> "none"]
NoString == [status |-> "none", bytes |-> <<>>]
NoCall == [helper |-> "none", before |-> 0, status |-> "none"]
NoBuffer == [len |-> 0, count |-> 0]
NoHeader == [form |-> "none"]

FileIdle ==
    /\ container = NoContainer
    /\ file = NoFile
    /\ string_result = NoString
    /\ buffer = NoBuffer
    /\ function_header = NoHeader
    /\ reader_position = 0
    /\ called = NoCall

\* no buffer has been handed to the loader entry points
NotLoaded == [status |-> "none"]

LoadIdle == file_bytes = <<>> /\ bytes_loaded = NotLoaded /\ reader_loaded = NotLoaded

\* Option::None of chained_iterator, and no generator being iterated
NoGen == [node |-> NoIndex]

GenIdle == gen = NoGen /\ yielded = <<>> /\ gen_start = NoGen

AuxIdle == test_expr = NoTest /\ lower_result = NoLowered /\ FileIdle /\ GenIdle /\ LoadIdle

ConstructFlowGraph ==
    /\ pc = "disassembled"
    /\ flow_graph' = construct_flow_graph(instructions)
    /\ pc' = IF flow_graph'.ok THEN "flow" ELSE "flow_panicked"
    /\ UNCHANGED <<bytecode, position, decoded, dis_pc, instructions, cfg, ast>>
    /\ UNCHANGED aux_vars

ConstructCfg ==
    /\ pc = "flow"
    /\ cfg' = construct_cfg(flow_graph)
    /\ pc' = "cfg"
    /\ UNCHANGED <<bytecode, position, decoded, dis_pc, instructions, flow_graph, ast>>
    /\ UNCHANGED aux_vars

GenerateAst ==
    /\ pc = "cfg"
    /\ ast' = generate_ast(cfg, instructions)
    /\ pc' = CASE ast'.status = "ok" -> "done"
                [] ast'.status = "panic" -> "ast_panicked"
                [] OTHER -> "ast_diverged"
    /\ UNCHANGED <<bytecode, position, decoded, dis_pc, instructions, flow_graph, cfg>>
    /\ UNCHANGED aux_vars

(***************************************************************************)
(* Inputs.                                                                 *)
(***************************************************************************)
PlainChoices == {Instr("LoadConstZero", 0, 0, 0), Instr("Ret", 0, 0, 0)}

JumpChoices ==
    {Instr(op, rel, 0, 0) : op \in {"Jmp", "JmpTrue"}, rel \in (-MaxRel)..MaxRel}

\* an instruction list with the jumps at the positions of `jumps` and plain
\* instructions elsewhere, at the offsets the disassembler gives them
ProgramOf(n, jumps, plain) ==
    WithOffsets([i \in 1..n |-> IF i \in DOMAIN jumps THEN jumps[i] ELSE plain[i]], 0)

\* the sets of at most MaxJumps positions of an n-instruction list
JumpPositions(n) == {S \in SUBSET (1..n) : Cardinality(S) <= MaxJumps}

\* the if/else of the spec's scenario 3
IfElseProgram ==
    WithOffsets(<<Instr("LoadConstTrue", 0, 0, 0), Instr("JmpTrue", 7, 0, 0),
                  Instr("LoadConstZero", 0, 1, 0), Instr("Jmp", 5, 0, 0),
                  Instr("LoadConstUInt8", 0, 1, 1), Instr("Ret", 0, 1, 0)>>, 0)

\* the while loop of the spec's scenario 4
WhileProgram ==
    WithOffsets(<<Instr("LoadConstUInt8", 0, 0, 0), Instr("LoadConstUInt8", 0, 1, 10),
                  Instr("JmpFalse", 8, 0, 0), Instr("Inc", 0, 0, 0),
                  Instr("Jmp", -6, 0, 0), Instr("Ret", 0, 0, 0)>>, 0)

\* if (r0) return r1; r2 = 7; return r2;
EarlyReturnProgram ==
    WithOffsets(<<Instr("LoadConstZero", 0, 0, 0), Instr("JmpTrue", 8, 0, 0),
                  Instr("LoadConstUInt8", 0, 2, 7), Instr("Ret", 0, 2, 0),
                  Instr("Ret", 0, 1, 0)>>, 0)

\* if (r0) throw r1; r2 = 7; return r2;
EarlyThrowProgram ==
    WithOffsets(<<Instr("LoadConstZero", 0, 0, 0), Instr("JmpTrue", 8, 0, 0),
                  Instr("LoadConstUInt8", 0, 2, 7), Instr("Ret", 0, 2, 0),
                  Instr("Throw", 0, 1, 0)>>, 0)

\* r0 = 0; do { r0++; } while (r0); return r0;  the loop after a prelude
DoWhileProgram ==
    WithOffsets(<<Instr("LoadConstUInt8", 0, 0, 0), Instr("Inc", 0, 0, 0),
                  Instr("JmpTrue", -3, 0, 0), Instr("Ret", 0, 0, 0)>>, 0)

\* do { if (!r0) { r1++; } } while (r0); return r1;  the condition block is
\* not the loop's first block
DoWhileIfProgram ==
    WithOffsets(<<Instr("LoadConstZero", 0, 0, 0), Instr("JmpTrue", 6, 0, 0),
                  Instr("Inc", 0, 1, 1), Instr("JmpTrue", -6, 0, 0),
                  Instr("Ret", 0, 1, 0)>>, 0)

\* a Throw arm, a JmpLong and a conditional jump that is the last instruction
ThrowProgram ==
    WithOffsets(<<Instr("LoadConstZero", 0, 0, 0), Instr("JmpFalse", 5, 0, 0),
                  Instr("Throw", 0, 0, 0), Instr("JmpLong", 5, 0, 0),
                  Instr("JmpTrue", -5, 0, 0)>>, 0)

\* r0 = 0; while (r0) { while (r1) { r1++; } r0++; } return r0;
NestedWhileProgram ==
    WithOffsets(<<Instr("LoadConstZero", 0, 0, 0), Instr("JmpFalse", 16, 0, 0),
                  Instr("JmpFalse", 8, 1, 0), Instr("Inc", 0, 1, 1),
                  Instr("Jmp", -6, 0, 0), Instr("Inc", 0, 0, 0),
                  Instr("Jmp", -14, 0, 0), Instr("Ret", 0, 0, 0)>>, 0)

\* r0 = 0; while (r0) { if (!r1) { r1++; } } return r0;
IfInWhileProgram ==
    WithOffsets(<<Instr("LoadConstZero", 0, 0, 0), Instr("JmpFalse", 11, 0, 0),
                  Instr("JmpTrue", 6, 1, 0), Instr("Inc", 0, 1, 1),
                  Instr("Jmp", -9, 0, 0), Instr("Ret", 0, 0, 0)>>, 0)

\* r0 = 0; while (r1 = 10, r0) { r0++; } return r0;  the header block holds
\* a preparatory instruction before its branch
PrepWhileProgram ==
    WithOffsets(<<Instr("LoadConstZero", 0, 0, 0), Instr("LoadConstUInt8", 0, 1, 10),
                  Instr("JmpFalse", 8, 0, 0), Instr("Inc", 0, 0, 0),
                  Instr("Jmp", -9, 0, 0), Instr("Ret", 0, 0, 0)>>, 0)

\* WhileProgram with the back edge taken by a JmpLong
WhileLongProgram ==
    WithOffsets(<<Instr("LoadConstUInt8", 0, 0, 0), Instr("LoadConstUInt8", 0, 1, 10),
                  Instr("JmpFalse", 11, 0, 0), Instr("Inc", 0, 0, 0),
                  Instr("JmpLong", -6, 0, 0), Instr("Ret", 0, 0, 0)>>, 0)

\* if (r0) { ... } r1 = 0; if (r1) return r1; return r0;  the arms of the
\* first branch merge in a block that ends in a branch of its own
IfThenIfProgram ==
    WithOffsets(<<Instr("LoadConstZero", 0, 0, 0), Instr("JmpTrue", 5, 0, 0),
                  Instr("LoadConstZero", 0, 1, 0), Instr("JmpTrue", 5, 1, 0),
                  Instr("Ret", 0, 0, 0), Instr("Ret", 0, 1, 0)>>, 0)

ScenarioPrograms ==
    {IfElseProgram, WhileProgram, EarlyReturnProgram, EarlyThrowProgram, ThrowProgram,
     DoWhileProgram, DoWhileIfProgram, NestedWhileProgram, IfInWhileProgram,
     PrepWhileProgram, WhileLongProgram, IfThenIfProgram}

SlabBytes == {0, 7, 90, 140, 142, 255}

\* the slab of the spec's scenario 1, and the encoding of `Ret r0`
ScenarioSlabs == {<<85, 0>>, <<90, 0>>}

(***************************************************************************)
(* The graph and lifting pipeline on a disassembled instruction list.      *)
(***************************************************************************)
Init ==
    /\ \/ \E n \in 1..MaxLen : \E J \in JumpPositions(n) :
             \E jumps \in [J -> JumpChoices], plain \in [(1..n) \ J -> PlainChoices] :
                instructions = ProgramOf(n, jumps, plain)
       \/ instructions \in ScenarioPrograms
    /\ pc = "disassembled"
    /\ flow_graph = NoGraph
    /\ cfg = NoCfg
    /\ ast = NoAst
    /\ bytecode = <<>>
    /\ position = 0
    /\ decoded = <<>>
    /\ dis_pc = "idle"
    /\ AuxIdle

Next == ConstructFlowGraph \/ ConstructCfg \/ GenerateAst

Spec == Init /\ [][Next]_vars

(***************************************************************************)
(* The whole driver from a bytecode slab.                                  *)
(***************************************************************************)
InitSlab ==
    /\ \/ \E n \in 0..MaxSlab : bytecode \in [1..n -> SlabBytes]
       \/ bytecode \in ScenarioSlabs
    /\ position = 0
    /\ decoded = <<>>
    /\ dis_pc = "reading"
    /\ instructions = <<>>
    /\ pc = "disassembling"
    /\ flow_graph = NoGraph
    /\ cfg = NoCfg
    /\ ast = NoAst
    /\ AuxIdle

NextSlab ==
    ReadOpcode \/ ReturnInstructions \/ ConstructFlowGraph \/ ConstructCfg \/ GenerateAst

SpecSlab == InitSlab /\ [][NextSlab]_vars

(***************************************************************************)
(* jump_inst_to_test applied to one branch instruction.                    *)
(***************************************************************************)
InitTest ==
    /\ \E op \in TestableOps \cup UncondJumps : \E a, b \in 0..MaxReg :
          instructions = WithOffsets(<<Instr(op, 0, a, b)>>, 0)
    /\ pc = "testing"
    /\ AuxIdle
    /\ flow_graph = NoGraph
    /\ cfg = NoCfg
    /\ ast = NoAst
    /\ bytecode = <<>>
    /\ position = 0
    /\ decoded = <<>>
    /\ dis_pc = "idle"

ExtractTest ==
    /\ pc = "testing"
    /\ IF IsTestable(instructions[1])
       THEN test_expr' = jump_inst_to_test(instructions[1]) /\ pc' = "tested"
       ELSE test_expr' = NoTest /\ pc' = "test_panicked"
    /\ UNCHANGED <<bytecode, position, decoded, dis_pc, instructions, flow_graph, cfg, ast,
                   lower_result, file_vars, gen_vars, load_vars>>

NextTest == ExtractTest

SpecTest == InitTest /\ [][NextTest]_vars

(***************************************************************************)
(* simple_instructions_to_ast applied to one block.                        *)
(***************************************************************************)
LowerChoices ==
    {Instr(op, 0, 0, 1) : op \in UnsupportedOps \cup {"LoadConstZero", "Inc", "Ret"}}

InitLower ==
    /\ \E n \in 1..MaxBlock : \E list \in [1..n -> LowerChoices] :
          /\ instructions = WithOffsets(list, 0)
          /\ cfg = [blocks |-> <<[k \in 1..n |-> k - 1]>>, n |-> 1, edges |-> <<>>]
    /\ pc = "lowering"
    /\ AuxIdle
    /\ flow_graph = NoGraph
    /\ ast = NoAst
    /\ bytecode = <<>>
    /\ position = 0
    /\ decoded = <<>>
    /\ dis_pc = "idle"

LowerOneBlock ==
    /\ pc = "lowering"
    /\ lower_result' = LowerBlock(cfg, 0, instructions)
    /\ pc' = IF lower_result'.status = "ok" THEN "lowered" ELSE "lower_panicked"
    /\ UNCHANGED <<bytecode, position, decoded, dis_pc, instructions, flow_graph, cfg, ast,
                   test_expr, file_vars, gen_vars, load_vars>>

NextLower == LowerOneBlock

SpecLower == InitLower /\ [][NextLower]_vars

(***************************************************************************)
(* hermes_file_reader.rs: BytecodeFile::from_reader and get_string.        *)
(*                                                                         *)
(* A container is the header (magic, version and the table counts, which   *)
(* are the lengths of the tables written after it) followed by the string  *)
(* entries, the overflow entries and the string storage; `available` is    *)
(* the number of table items the stream holds before it ends.  The tables  *)
(* the model leaves out have count 0.                                      *)
(***************************************************************************)
MAGIC == "1F1903C103BC1FC6"

SUPPORTED_VERSIONS == {93}

SmallStringTableEntry(offset, length) == [offset |-> offset, length |-> length]

OverflowStringTableEntry(offset, length) == [offset |-> offset, length |-> length]

\* a table of `count` items read with `?` from a stream holding `remaining`
\* items: the items, or Err when the stream ends first
ReadTable(table, count, remaining) ==
    IF count <= remaining
    THEN [ok |-> TRUE, items |-> SubSeq(table, 1, count), remaining |-> remaining - count]
    ELSE [ok |-> FALSE, items |-> <<>>, remaining |-> 0]

\* the println! warnings of the header check
HeaderWarnings(c) ==
    (IF c.magic # MAGIC THEN {"magic"} ELSE {})
        \cup (IF c.version \notin SUPPORTED_VERSIONS THEN {"version"} ELSE {})

from_reader(c) ==
    LET entries == ReadTable(c.entries, Len(c.entries), c.available)
        overflow == ReadTable(c.overflow, Len(c.overflow), entries.remaining)
        storage == ReadTable(c.storage, Len(c.storage), overflow.remaining)
    IN  IF entries.ok /\ overflow.ok /\ storage.ok
        THEN [status |-> "ok", warnings |-> HeaderWarnings(c),
              string_table_entries |-> entries.items,
              string_table_overflow_entries |-> overflow.items,
              string_storage |-> storage.items]
        ELSE [status |-> "err", warnings |-> HeaderWarnings(c),
              string_table_entries |-> <<>>,
              string_table_overflow_entries |-> <<>>,
              string_storage |-> <<>>]

\* self.string_storage[begin..end]: the bytes, or a panic of the slice index
StorageSlice(storage, begin, end) ==
    IF end <= Len(storage)
    THEN [status |-> "Some", bytes |-> SubSeq(storage, begin + 1, end)]
    ELSE [status |-> "panic", bytes |-> <<>>]

get_string(f, index) ==
    IF index >= Len(f.string_table_entries)
    THEN [status |-> "panic", bytes |-> <<>>]
    ELSE LET entry == f.string_table_entries[index + 1]
             begin_offset == entry.offset
             end_offset == begin_offset + entry.length
         IN  IF entry.length = 0
             THEN [status |-> "None", bytes |-> <<>>]
             ELSE StorageSlice(f.string_storage, begin_offset, end_offset)

LoadFile ==
    /\ pc = "loading"
    /\ file' = from_reader(container)
    /\ pc' = IF file'.status = "ok" THEN "loaded" ELSE "load_failed"
    /\ UNCHANGED <<bytecode, position, decoded, dis_pc, instructions, flow_graph, cfg, ast,
                   test_expr, lower_result, container, string_result, buffer,
                   function_header, reader_position, called, gen_vars, load_vars>>

GetString ==
    /\ pc = "loaded"
    /\ \E index \in 0..(Len(file.string_table_entries) - 1) :
          /\ string_result' = get_string(file, index)
          /\ called' = [helper |-> "get_string", before |-> index, status |-> "returned"]
    /\ pc' = "string_read"
    /\ UNCHANGED <<bytecode, position, decoded, dis_pc, instructions, flow_graph, cfg, ast,
                   test_expr, lower_result, container, file, buffer, function_header,
                   reader_position, gen_vars, load_vars>>

\* the small entries of the enumerated containers; length 255 marks an
\* entry whose real offset and length are in the overflow table
EntryChoices ==
    {SmallStringTableEntry(o, l) : o \in 0..1, l \in {0, 1, 2, 255}}

OverflowChoices ==
    {<<>>, <<OverflowStringTableEntry(0, 2)>>,
     <<OverflowStringTableEntry(1, 1), OverflowStringTableEntry(0, 0)>>}

\* the storage of n bytes "abc..."
StorageOf(n) == [i \in 1..n |-> 96 + i]

InitFile ==
    /\ \E n \in 1..MaxStrings : \E entries \in [1..n -> EntryChoices] :
         \E overflow \in OverflowChoices : \E size \in 0..MaxStorage :
           \E magic \in {MAGIC, "0000000000000000"}, version \in {93, 94} :
             \E available \in 0..(n + Len(overflow) + size) :
                container = [magic |-> magic, version |-> version, entries |-> entries,
                             overflow |-> overflow, storage |-> StorageOf(size),
                             available |-> available]
    /\ pc = "loading"
    /\ file = NoFile
    /\ string_result = NoString
    /\ buffer = NoBuffer
    /\ function_header = NoHeader
    /\ reader_position = 0
    /\ called = NoCall
    /\ test_expr = NoTest
    /\ lower_result = NoLowered
    /\ GenIdle /\ LoadIdle
    /\ instructions = <<>>
    /\ flow_graph = NoGraph
    /\ cfg = NoCfg
    /\ ast = NoAst
    /\ bytecode = <<>>
    /\ position = 0
    /\ decoded = <<>>
    /\ dis_pc = "idle"

NextFile == LoadFile \/ GetString

SpecFile == InitFile /\ [][NextFile]_vars

(***************************************************************************)
(* hermes_file_reader.rs: the helpers of SmallFuncHeader and               *)
(* FunctionHeader that seek inside the shared reader.  The reader is a     *)
(* cursor over `buffer.len` bytes; `buffer.count` is the u32 stored at the *)
(* header's info_offset.  A helper's outcome is [status, position] with    *)
(* status "ok", "err" (an io::Error returned by `?`) or "panic" (an        *)
(* unwrap inside a FromBytes reader).                                      *)
(***************************************************************************)
U32Bytes == 4                       \* the handler count read by read_u32
ExceptionHandlerInfoBytes == 12     \* start, end, target
FunctionHeaderBytes == 31           \* seven u32 fields, two u8 fields and the flags

Outcome(status, at) == [status |-> status, position |-> at]

\* seek(Start(start)) followed by read_exact of size bytes, returned with
\* `?`.  After a failed read_exact the position of the cursor is the seek
\* target or the end of the buffer, depending on the library version.
SeekAndRead(len, start, size) ==
    IF start + size <= len
    THEN {Outcome("ok", start + size)}
    ELSE {Outcome("err", start), Outcome("err", len)}

\* SmallFuncHeader::read_large_header
read_large_header(h, len, previous_offset) ==
    LET offset == h.info_offset * 65536 + h.offset
    IN  IF offset + FunctionHeaderBytes <= len
        THEN {Outcome("ok", previous_offset)}
        ELSE {Outcome("panic", offset), Outcome("panic", len)}

\* SmallFuncHeader::read_bytecode
small_read_bytecode(h, len, previous_offset) ==
    IF h.overflowed
    THEN {Outcome("ok", previous_offset)}
    ELSE {IF o.status = "ok" THEN Outcome("ok", previous_offset) ELSE o :
             o \in SeekAndRead(len, h.offset, h.bytecode_size_in_bytes)}

\* FunctionHeader::read_bytecode
large_read_bytecode(h, len, previous_offset) ==
    SeekAndRead(len, h.offset, h.bytecode_size_in_bytes)

\* read_exception_handlers, the same body on both header forms
read_exception_handlers(h, buf, previous_offset) ==
    IF ~h.has_exception_handler
    THEN {Outcome("ok", previous_offset)}
    ELSE LET after_count == h.info_offset + U32Bytes
             after_handlers == after_count + buf.count * ExceptionHandlerInfoBytes
         IN  IF after_count > buf.len
             THEN SeekAndRead(buf.len, h.info_offset, U32Bytes)
             ELSE IF after_handlers <= buf.len
                  THEN {Outcome("ok", after_handlers)}
                  ELSE {Outcome("panic", p) : p \in after_count..buf.len}

\* a helper has run: the reader is where the outcome left it
Return(helper, outcomes) ==
    /\ pc = "calling"
    /\ \E o \in outcomes :
          /\ reader_position' = o.position
          /\ called' = [helper |-> helper, before |-> reader_position, status |-> o.status]
          /\ pc' = IF o.status = "panic" THEN "helper_panicked" ELSE "helper_returned"
    /\ UNCHANGED <<bytecode, position, decoded, dis_pc, instructions, flow_graph, cfg, ast,
                   test_expr, lower_result, container, file, string_result, buffer,
                   function_header, gen_vars, load_vars>>

ReadLargeHeader ==
    /\ function_header.form = "small"
    /\ Return("read_large_header",
              read_large_header(function_header, buffer.len, reader_position))

SmallReadBytecode ==
    /\ function_header.form = "small"
    /\ Return("SmallFuncHeader::read_bytecode",
              small_read_bytecode(function_header, buffer.len, reader_position))

LargeReadBytecode ==
    /\ function_header.form = "large"
    /\ Return("FunctionHeader::read_bytecode",
              large_read_bytecode(function_header, buffer.len, reader_position))

SmallReadExceptionHandlers ==
    /\ function_header.form = "small"
    /\ Return("SmallFuncHeader::read_exception_handlers",
              read_exception_handlers(function_header, buffer, reader_position))

LargeReadExceptionHandlers ==
    /\ function_header.form = "large"
    /\ Return("FunctionHeader::read_exception_handlers",
              read_exception_handlers(function_header, buffer, reader_position))

\* the enumerated buffer lengths, header offsets and reader positions
BufferLengths == {0, 16, 48}

HeaderOffsets == {0, 4}

ReaderPositions == {0, 3, 16}

InitReader ==
    /\ \E len \in BufferLengths, count \in 0..MaxHandlers :
          buffer = [len |-> len, count |-> count]
    /\ \E form \in {"small", "large"}, offset \in HeaderOffsets, size \in 0..MaxSlab,
          info_offset \in {0, 1, 8}, has_exception_handler \in BOOLEAN,
          overflowed \in BOOLEAN :
          function_header = [form |-> form, offset |-> offset,
                             bytecode_size_in_bytes |-> size, info_offset |-> info_offset,
                             has_exception_handler |-> has_exception_handler,
                             overflowed |-> overflowed]
    /\ reader_position \in ReaderPositions
    /\ called = NoCall
    /\ pc = "calling"
    /\ container = NoContainer
    /\ file = NoFile
    /\ string_result = NoString
    /\ test_expr = NoTest
    /\ lower_result = NoLowered
    /\ GenIdle /\ LoadIdle
    /\ instructions = <<>>
    /\ flow_graph = NoGraph
    /\ cfg = NoCfg
    /\ ast = NoAst
    /\ bytecode = <<>>
    /\ position = 0
    /\ decoded = <<>>
    /\ dis_pc = "idle"

NextReader ==
    \/ ReadLargeHeader
    \/ SmallReadBytecode
    \/ LargeReadBytecode
    \/ SmallReadExceptionHandlers
    \/ LargeReadExceptionHandlers

SpecReader == InitReader /\ [][NextReader]_vars

(***************************************************************************)
(* generate_ast.rs: Iterator::next of AstGenerator, one step at a time.    *)
(*                                                                         *)
(* `gen` is *self.  A step of next pops the front of stmt_queue, or runs   *)
(* one stage of populate_next_stage, or replaces *self by the chained      *)
(* iterator, or returns None.  The generators a stage collects for a loop  *)
(* body or an if arm run to their end inside the stage (Collect).          *)
(* gen.depth counts down the generators chained on this path, as the depth *)
(* of Collect does.                                                        *)
(***************************************************************************)
\* AstGenerator::new
NewGen(node, first, wc, dwc, depth) ==
    [node |-> node, is_do_while_first_block |-> first, while_cond_block |-> wc,
     do_while_cond_block |-> dwc, after_if_node |-> NoIndex,
     stage |-> "BeginProcessBlock", stmt_queue |-> <<>>, chained_iterator |-> NoGen,
     is_last_instruction_return |-> FALSE, depth |-> depth]

\* what one call of populate_next_stage leaves: the generator, the value
\* returned, and "panic" or "diverged" when the call does not return
Populated(status, g, returned) == [status |-> status, gen |-> g, returned |-> returned]

PushBack(g, stmts, stage) ==
    [g EXCEPT !.stmt_queue = g.stmt_queue \o stmts, !.stage = stage]

\* BeginProcessBlock that hands a lowered block to the AfterIf stage
BeginProcessBlockThenAfterIf(c, list, g) ==
    IF g.depth = 0 THEN Populated("diverged", g, FALSE)
    ELSE IF g.while_cond_block = g.node
    THEN Populated("ok", PushBack(g, <<ContinueStmt>>, "ProcessingDone"), FALSE)
    ELSE IF LowerBlock(c, g.node, list).status = "panic"
    THEN Populated("panic", g, FALSE)
    ELSE IF g.do_while_cond_block = g.node
    THEN Populated("ok", PushBack(g, simple_instructions_to_ast(c, g.node, list),
                                  "ProcessingDone"), FALSE)
    ELSE Populated("ok", PushBack(g, simple_instructions_to_ast(c, g.node, list),
                                  "AfterIf"), TRUE)

\* AstGeneratorStage::BeginProcessBlock
BeginProcessBlock(c, list, g) ==
    IF g.depth = 0 THEN Populated("diverged", g, FALSE)
    ELSE IF g.while_cond_block = g.node
    THEN Populated("ok", PushBack(g, <<ContinueStmt>>, "ProcessingDone"), FALSE)
    ELSE IF LowerBlock(c, g.node, list).status = "panic"
    THEN Populated("panic", g, FALSE)
    ELSE IF g.do_while_cond_block = g.node
    THEN Populated("ok", PushBack(g, simple_instructions_to_ast(c, g.node, list),
                                  "ProcessingDone"), FALSE)
    ELSE Populated("ok", PushBack(g, simple_instructions_to_ast(c, g.node, list),
                                  "LoopCheck"), TRUE)

\* the DoWhile or While that LoopCheck queues, with the iterator it chains;
\* do_body and while_body are the collected body generators
LoopQueued(g, cond, tru, fals, do_body, while_body, long_header) ==
    IF tru = g.node
    THEN IF do_body.status # "ok" THEN Populated(do_body.status, g, FALSE)
         ELSE Populated("ok",
                 [PushBack(g, <<DoWhileStmt(Paren(cond), do_body.stmts)>>,
                           "ProcessingDone")
                    EXCEPT !.chained_iterator =
                             NewGen(fals, FALSE, NoIndex, NoIndex, g.depth - 1)],
                 TRUE)
    ELSE IF while_body.status # "ok" THEN Populated(while_body.status, g, FALSE)
    ELSE IF long_header /\ AddInsideWhilePanics(while_body.stmts)
    THEN Populated("panic", g, FALSE)
    ELSE Populated("ok",
            [PushBack(g, <<WhileStmt(Bang(Paren(cond)), while_body.stmts)>>,
                      "ProcessingDone")
               EXCEPT !.chained_iterator =
                        NewGen(tru, FALSE, NoIndex, g.do_while_cond_block, g.depth - 1)],
            TRUE)

\* AstGeneratorStage::LoopCheck
LoopCheckStage(c, list, g) ==
    LET indecies == c.blocks[g.node + 1]
        flow_index == Last(indecies)
        incoming_edges == Incoming(c, g.node)
        edges_from == {e.src : e \in Range(incoming_edges)}
        before == ReachableAvoiding(c, g.node)
        possible_loop_condition_index ==
            LoopCandidate(c, <<g.node>>, before, before, edges_from)
        cond_index == Last(c.blocks[possible_loop_condition_index + 1])
        skip_do_while_check == list[cond_index + 1].op = "Jmp"
        index == IF skip_do_while_check THEN flow_index ELSE cond_index
        loop_cond_index ==
            IF skip_do_while_check THEN g.node ELSE possible_loop_condition_index
        tru == TruTarget(c, loop_cond_index)
        fals == FalsTarget(c, loop_cond_index)
    IN  IF ~g.is_do_while_first_block /\ Len(incoming_edges) >= 2
           /\ possible_loop_condition_index # NoIndex
        THEN IF ~IsTestable(list[index + 1]) \/ tru = NoIndex \/ fals = NoIndex
             THEN Populated("panic", g, FALSE)
             ELSE LoopQueued(g, jump_inst_to_test(list[index + 1]), tru, fals,
                             Collect(c, list, g.node, TRUE, NoIndex,
                                     possible_loop_condition_index, g.depth - 1),
                             Collect(c, list, fals, FALSE, g.node, g.do_while_cond_block,
                                     g.depth - 1),
                             Len(indecies) > 1)
        ELSE Populated("ok", [g EXCEPT !.stage = "IfCheck"], TRUE)

\* the generator IfCheck and AfterIf chain: it inherits both condition blocks
ChainedFrom(g, node) ==
    NewGen(node, FALSE, g.while_cond_block, g.do_while_cond_block, g.depth - 1)

\* ChainedFrom that forgets the while condition block
ChainedAfterIfForgetsWhile(g, node) ==
    NewGen(node, FALSE, NoIndex, g.do_while_cond_block, g.depth - 1)

\* the generator AfterIf chains at the recorded join block
ChainedAfterIf(g, node) == ChainedFrom(g, node)

\* the if that IfCheck queues for a block with two outgoing edges;
\* from_tru and from_fals are the collected arm generators
IfQueued(g, test, tru, fals, from_tru, from_fals, skip_else_false, skip_else_true) ==
    IF skip_else_false
    THEN IF from_tru.status # "ok" THEN Populated(from_tru.status, g, FALSE)
         ELSE Populated("ok",
                 [PushBack(g, <<IfStmt(test, from_tru.stmts)>>, "AfterIf")
                    EXCEPT !.after_if_node = fals],
                 TRUE)
    ELSE IF skip_else_true
    THEN IF from_fals.status # "ok" THEN Populated(from_fals.status, g, FALSE)
         ELSE Populated("ok",
                 [PushBack(g, <<IfStmt(Bang(Paren(test)), from_fals.stmts)>>, "AfterIf")
                    EXCEPT !.after_if_node = tru],
                 TRUE)
    ELSE IF from_tru.status # "ok" THEN Populated(from_tru.status, g, FALSE)
    ELSE IF from_tru.ret
    THEN Populated("ok",
            [PushBack(g, <<IfStmt(test, from_tru.stmts)>>, "ProcessingDone")
               EXCEPT !.chained_iterator = ChainedFrom(g, fals)],
            TRUE)
    ELSE IF from_fals.status # "ok" THEN Populated(from_fals.status, g, FALSE)
    ELSE Populated("ok",
            PushBack(g, <<IfElseStmt(test, from_tru.stmts, from_fals.stmts)>>,
                     "ProcessingDone"),
            TRUE)

\* AstGeneratorStage::IfCheck
IfCheckStage(c, list, g) ==
    LET outgoing_edges == Outgoing(c, g.node)
        flow_index == Last(c.blocks[g.node + 1])
        tru == TruTarget(c, g.node)
        fals == FalsTarget(c, g.node)
        skip_else_false == Reaches(c, fals, tru)
    IN  IF Len(outgoing_edges) = 2
        THEN IF tru = NoIndex \/ fals = NoIndex \/ ~IsTestable(list[flow_index + 1])
             THEN Populated("panic", g, FALSE)
             ELSE IfQueued(g, jump_inst_to_test(list[flow_index + 1]), tru, fals,
                           Collect(c, list, tru, FALSE, g.while_cond_block,
                                   g.do_while_cond_block, g.depth - 1),
                           Collect(c, list, fals, FALSE, g.while_cond_block,
                                   g.do_while_cond_block, g.depth - 1),
                           skip_else_false,
                           ~skip_else_false /\ Reaches(c, tru, fals))
        ELSE IF Len(outgoing_edges) = 1
        THEN Populated("ok",
                [g EXCEPT !.stage = "ProcessingDone",
                          !.chained_iterator = ChainedFrom(g, outgoing_edges[1].dst)],
                TRUE)
        ELSE Populated("ok", [g EXCEPT !.stage = "ProcessingDone"], TRUE)

\* AstGeneratorStage::AfterIf
AfterIfStage(g) ==
    IF g.after_if_node # NoIndex
    THEN Populated("ok",
            [g EXCEPT !.stage = "ProcessingDone",
                      !.chained_iterator = ChainedAfterIf(g, g.after_if_node)],
            TRUE)
    ELSE Populated("ok", [g EXCEPT !.stage = "ProcessingDone"], TRUE)

\* populate_next_stage
populate_next_stage(c, list, g) ==
    CASE g.stage = "BeginProcessBlock" -> BeginProcessBlock(c, list, g)
      [] g.stage = "LoopCheck"         -> LoopCheckStage(c, list, g)
      [] g.stage = "IfCheck"           -> IfCheckStage(c, list, g)
      [] g.stage = "AfterIf"           -> AfterIfStage(g)
      [] g.stage = "ProcessingDone"    -> Populated("ok", g, FALSE)

\* next looks at populate_next_stage whatever the queue holds
QueueDrainedAlways(g) == TRUE

\* next reaches populate_next_stage only when pop_front gave None
QueueDrained(g) == g.stmt_queue = <<>>

\* `if let Some(item) = self.stmt_queue.pop_front()`
YieldFront ==
    /\ pc = "generating"
    /\ gen.stmt_queue # <<>>
    /\ yielded' = Append(yielded, Head(gen.stmt_queue))
    /\ gen' = [gen EXCEPT !.stmt_queue = Tail(gen.stmt_queue),
                          !.is_last_instruction_return =
                              gen.is_last_instruction_return
                                  \/ IsReturnOrThrow(Head(gen.stmt_queue))]
    /\ UNCHANGED <<pc, gen_start>>
    /\ UNCHANGED <<bytecode, position, decoded, dis_pc, instructions, flow_graph, cfg, ast,
                   test_expr, lower_result, file_vars, load_vars>>

\* `else if self.populate_next_stage()`: a stage that returns true, or that
\* does not return; and the stage that returns false with no chained
\* iterator, after which next returns None
PopulateNextStage ==
    /\ pc = "generating"
    /\ QueueDrained(gen)
    /\ gen.stage # "ProcessingDone"
    /\ LET r == populate_next_stage(cfg, instructions, gen)
       IN  /\ gen' = r.gen
           /\ pc' = CASE r.status = "panic" -> "gen_panicked"
                      [] r.status = "diverged" -> "gen_diverged"
                      [] r.returned -> "generating"
                      [] OTHER -> "exhausted"
    /\ UNCHANGED <<yielded, gen_start>>
    /\ UNCHANGED <<bytecode, position, decoded, dis_pc, instructions, flow_graph, cfg, ast,
                   test_expr, lower_result, file_vars, load_vars>>

\* `*self = *self.chained_iterator.take().unwrap()`
BecomeChained ==
    /\ pc = "generating"
    /\ QueueDrained(gen)
    /\ gen.stage = "ProcessingDone"
    /\ gen.chained_iterator # NoGen
    /\ gen' = gen.chained_iterator
    /\ UNCHANGED <<pc, yielded, gen_start>>
    /\ UNCHANGED <<bytecode, position, decoded, dis_pc, instructions, flow_graph, cfg, ast,
                   test_expr, lower_result, file_vars, load_vars>>

\* `else { None }`
ReturnNone ==
    /\ pc = "generating"
    /\ QueueDrained(gen)
    /\ gen.stage = "ProcessingDone"
    /\ gen.chained_iterator = NoGen
    /\ pc' = "exhausted"
    /\ UNCHANGED <<gen, yielded, gen_start>>
    /\ UNCHANGED <<bytecode, position, decoded, dis_pc, instructions, flow_graph, cfg, ast,
                   test_expr, lower_result, file_vars, load_vars>>

\* a branch whose `true` successor lies before it and runs into its `false`
\* successor: if (!(r0)) { return r0; } r1++; return r0;
BackwardIfProgram ==
    WithOffsets(<<Instr("Jmp", 7, 0, 0), Instr("Inc", 0, 1, 1), Instr("Jmp", 5, 0, 0),
                  Instr("JmpTrue", -5, 0, 0), Instr("Ret", 0, 0, 0)>>, 0)

\* the programs whose generators are iterated
GeneratorPrograms ==
    {IfElseProgram, WhileProgram, EarlyReturnProgram, EarlyThrowProgram, DoWhileProgram,
     DoWhileIfProgram, NestedWhileProgram, IfInWhileProgram, PrepWhileProgram,
     WhileLongProgram, BackwardIfProgram}

InitGen ==
    /\ instructions \in GeneratorPrograms
    /\ flow_graph = construct_flow_graph(instructions)
    /\ cfg = construct_cfg(flow_graph)
    /\ \E node \in 0..(cfg.n - 1), first \in BOOLEAN :
         \E wc, dwc \in {NoIndex} \cup (0..(cfg.n - 1)) :
            gen_start = NewGen(node, first, wc, dwc, MaxDepth)
    /\ gen = gen_start
    /\ yielded = <<>>
    /\ pc = "generating"
    /\ ast = NoAst
    /\ bytecode = <<>>
    /\ position = 0
    /\ decoded = <<>>
    /\ dis_pc = "idle"
    /\ test_expr = NoTest
    /\ lower_result = NoLowered
    /\ FileIdle /\ LoadIdle

NextGen == YieldFront \/ PopulateNextStage \/ BecomeChained \/ ReturnNone

SpecGen == InitGen /\ [][NextGen]_vars

(***************************************************************************)
(* hermes_file_reader.rs: BytecodeFile::from_bytes and                     *)
(* BytecodeFile::from_reader run on one byte buffer.                       *)
(*                                                                         *)
(* A header field and a table entry are kept as the bytes they were read   *)
(* from: from_reader reads every integer little-endian, and from_bytes     *)
(* transmutes the same bytes on a little-endian host, so two entries are   *)
(* equal exactly when their bytes are.                                     *)
(***************************************************************************)
\* the fields of BytecodeFileHeader in declaration order, with their sizes
HeaderLayout ==
    <<<<"magic", 8>>, <<"version", 4>>, <<"source_hash", 20>>, <<"file_length", 4>>,
      <<"global_code_index", 4>>, <<"function_count", 4>>, <<"string_kind_count", 4>>,
      <<"identifier_count", 4>>, <<"string_count", 4>>, <<"overflow_string_count", 4>>,
      <<"string_storage_size", 4>>, <<"big_int_count", 4>>, <<"big_int_storage_size", 4>>,
      <<"reg_exp_count", 4>>, <<"reg_exp_storage_size", 4>>, <<"array_buffer_size", 4>>,
      <<"obj_key_buffer_size", 4>>, <<"obj_value_buffer_size", 4>>, <<"segment_id", 4>>,
      <<"cjs_module_count", 4>>, <<"function_source_count", 4>>,
      <<"debug_info_offset", 4>>, <<"options", 1>>, <<"_padding", 19>>>>

\* the tables in the order both entry points read them: the field of the
\* file, the header field that counts its entries, and the size of an entry
TableLayout ==
    <<<<"function_headers", "function_count", 16>>,
      <<"string_kinds", "string_kind_count", 4>>,
      <<"identifier_hashes", "identifier_count", 4>>,
      <<"string_table_entries", "string_count", 4>>,
      <<"string_table_overflow_entries", "overflow_string_count", 8>>,
      <<"string_storage", "string_storage_size", 1>>,
      <<"array_buffer", "array_buffer_size", 1>>,
      <<"obj_key_buffer", "obj_key_buffer_size", 1>>,
      <<"obj_value_buffer", "obj_value_buffer_size", 1>>,
      <<"big_int_table", "big_int_count", 8>>,
      <<"big_int_storage", "big_int_storage_size", 1>>,
      <<"reg_exp_table", "reg_exp_count", 8>>,
      <<"reg_exp_storage", "reg_exp_storage_size", 1>>,
      <<"cjs_module_table", "cjs_module_count", 8>>,
      <<"function_source_table", "function_source_count", 8>>>>

RECURSIVE LayoutSize(_)
LayoutSize(layout) ==
    IF layout = <<>> THEN 0 ELSE Head(layout)[2] + LayoutSize(Tail(layout))

\* std::mem::size_of::<BytecodeFileHeader>(): the fields leave no padding
HeaderSize == LayoutSize(HeaderLayout)

FieldIndex(name) == CHOOSE k \in 1..Len(HeaderLayout) : HeaderLayout[k][1] = name

FieldOffset(name) == LayoutSize(SubSeq(HeaderLayout, 1, FieldIndex(name) - 1))

FieldSize(name) == HeaderLayout[FieldIndex(name)][2]

\* the header decoded field by field from the first HeaderSize bytes
HeaderOf(bytes) ==
    [name \in {HeaderLayout[k][1] : k \in 1..Len(HeaderLayout)} |->
        SubSeq(bytes, FieldOffset(name) + 1, FieldOffset(name) + FieldSize(name))]

\* a u32 read from four bytes; a value of 65536 or more stands for every
\* value beyond the length of any buffer
U32Of(bs) == IF bs[3] = 0 /\ bs[4] = 0 THEN bs[1] + 256 * bs[2] ELSE 65536

\* the little-endian bytes of MAGIC
MagicBytes == <<198, 31, 188, 3, 193, 3, 25, 31>>

\* the println! warnings of the header check of either entry point
LoaderWarnings(header) ==
    HeaderWarnings([magic |-> IF header.magic = MagicBytes THEN MAGIC ELSE "",
                    version |-> U32Of(header.version)])

\* the tables of `layout` read one after the other from byte `at`; ok is
\* FALSE when an entry crosses the end of the buffer
RECURSIVE ReadTables(_, _, _, _)
ReadTables(bytes, at, header, layout) ==
    IF layout = <<>> THEN [ok |-> TRUE, tables |-> <<>>]
    ELSE LET count == U32Of(header[Head(layout)[2]])
             size == Head(layout)[3]
             more == ReadTables(bytes, at + count * size, header, Tail(layout))
         IN  IF at + count * size > Len(bytes) THEN [ok |-> FALSE, tables |-> <<>>]
             ELSE [ok |-> more.ok,
                   tables |-> <<[k \in 1..count |->
                                   SubSeq(bytes, at + (k - 1) * size + 1, at + k * size)]>>
                              \o more.tables]

\* SmallFuncHeader: flags is the last byte, has_exception_handler its bit 3;
\* info_offset is the 25 bits from bit 64
has_exception_handler(fh) == (fh[16] \div 8) % 2 = 1

info_offset(fh) == fh[9] + 256 * fh[10] + 65536 * fh[11] + 16777216 * (fh[12] % 2)

\* SmallFuncHeader::read_exception_handlers(..).unwrap() on a reader over `bytes`
ReadHandlers(fh, bytes) ==
    IF ~has_exception_handler(fh) THEN [status |-> "ok", handlers |-> <<"None">>]
    ELSE LET at == info_offset(fh)
             count == U32Of(SubSeq(bytes, at + 1, at + U32Bytes))
             first == at + U32Bytes
         IN  IF first > Len(bytes) THEN [status |-> "panic", handlers |-> <<>>]
             ELSE IF first + count * ExceptionHandlerInfoBytes > Len(bytes)
             THEN [status |-> "panic", handlers |-> <<>>]
             ELSE [status |-> "ok",
                   handlers |->
                     <<"Some", [k \in 1..count |->
                          SubSeq(bytes, first + (k - 1) * ExceptionHandlerInfoBytes + 1,
                                 first + k * ExceptionHandlerInfoBytes)]>>]

\* the exception_handler_map built from the function headers that were read
ExceptionHandlerMap(function_headers, bytes) ==
    IF \E i \in DOMAIN function_headers :
           ReadHandlers(function_headers[i], bytes).status = "panic"
    THEN [status |-> "panic", map |-> <<>>]
    ELSE [status |-> "ok",
          map |-> [i \in DOMAIN function_headers |->
                      ReadHandlers(function_headers[i], bytes).handlers]]

\* the BytecodeFile either entry point builds when it read its tables from
\* byte `tables_at`
LoadedFile(bytes, tables_at) ==
    LET header == HeaderOf(bytes)
        read == ReadTables(bytes, tables_at, header, TableLayout)
    IN  [status |-> "ok", header |-> header, warnings |-> LoaderWarnings(header),
         tables_at |-> tables_at,
         tables |-> [k \in 1..Len(TableLayout) |-> read.tables[k]],
         cjs_modules_statically_resolved |-> (header.options[1] \div 2) % 2 = 1,
         exception_handler_map |-> ExceptionHandlerMap(read.tables[1], bytes).map]

LoadFailed(status) == [status |-> status]

\* BytecodeFile::from_reader(&mut Cursor::new(bytes)): the tables follow the header
CursorFromReader(bytes) ==
    IF Len(bytes) < HeaderSize THEN LoadFailed("panic")
    ELSE LET read == ReadTables(bytes, HeaderSize, HeaderOf(bytes), TableLayout)
         IN  IF ~read.ok THEN LoadFailed("err")
             ELSE IF ExceptionHandlerMap(read.tables[1], bytes).status = "panic"
             THEN LoadFailed("panic")
             ELSE LoadedFile(bytes, HeaderSize)

\* from_bytes_pedantic reads an entry wider than a byte through a pointer
\* whose alignment the byte buffer does not guarantee
ReadsWideEntry(header) ==
    \E k \in 1..Len(TableLayout) :
        TableLayout[k][3] > 1 /\ U32Of(header[TableLayout[k][2]]) > 0

\* BytecodeFile::from_bytes(bytes): `offset` is 0 when the header has been
\* decoded from bytes[0..size] and is still 0 when the first table is read.
\* The outcomes: what the reads give, and a panic where a read is undefined.
from_bytes(bytes) ==
    IF Len(bytes) < HeaderSize THEN {LoadFailed("panic")}
    ELSE LET read == ReadTables(bytes, 0, HeaderOf(bytes), TableLayout)
         IN  (IF ~read.ok THEN {LoadFailed("panic")}
              ELSE IF ExceptionHandlerMap(read.tables[1], bytes).status = "panic"
              THEN {LoadFailed("panic")}
              ELSE {LoadedFile(bytes, 0)})
             \cup (IF ReadsWideEntry(HeaderOf(bytes)) THEN {LoadFailed("panic")} ELSE {})

LoadFromBytes ==
    /\ pc = "comparing"
    /\ bytes_loaded = NotLoaded
    /\ bytes_loaded' \in from_bytes(file_bytes)
    /\ UNCHANGED <<bytecode, position, decoded, dis_pc, instructions, flow_graph, cfg, ast,
                   pc, test_expr, lower_result, file_vars, gen_vars, file_bytes,
                   reader_loaded>>

LoadFromReader ==
    /\ pc = "comparing"
    /\ reader_loaded = NotLoaded
    /\ reader_loaded' = CursorFromReader(file_bytes)
    /\ UNCHANGED <<bytecode, position, decoded, dis_pc, instructions, flow_graph, cfg, ast,
                   pc, test_expr, lower_result, file_vars, gen_vars, file_bytes,
                   bytes_loaded>>

\* the little-endian bytes of a value below 2^24
ToLittleEndian(value, width) ==
    [k \in 1..width |-> IF k > 3 THEN 0 ELSE (value \div (256 ^ (k - 1))) % 256]

Fill(n, byte) == [k \in 1..n |-> byte]

\* a header with the given magic, options byte and counts, version 93 and
\* every other field zero
HeaderBytes(magic, options, counts) ==
    Flatten([k \in 1..Len(HeaderLayout) |->
        LET name == HeaderLayout[k][1]
        IN  CASE name = "magic" -> magic
              [] name = "version" -> ToLittleEndian(93, 4)
              [] name = "options" -> <<options>>
              [] name \in DOMAIN counts -> ToLittleEndian(counts[name], HeaderLayout[k][2])
              [] OTHER -> Fill(HeaderLayout[k][2], 0)])

\* a SmallFuncHeader with has_exception_handler set and the given info_offset
HandlerFuncHeader(at) ==
    Fill(8, 0) \o ToLittleEndian(at, 3) \o Fill(4, 0) \o <<8>>

\* the bytes after the header: `needed` bytes of tables, then a handler area
Payloads(header, functions, needed) ==
    {Fill(needed, 7), SubSeq(header, 1, needed), Fill(needed, 7) \o Fill(1, 7)}
    \cup (IF needed > 0 THEN {Fill(needed - 1, 7)} ELSE {})
    \cup (IF functions > 0
          THEN {HandlerFuncHeader(HeaderSize + needed) \o Fill(needed - 16, 7)
                    \o ToLittleEndian(n, 4) \o Fill(n * ExceptionHandlerInfoBytes, 9) :
                        n \in 0..MaxHandlers}
          ELSE {})

InitLoaders ==
    /\ \E functions \in 0..MaxFunctions, strings \in 0..MaxStrings, size \in 0..MaxStorage :
         \E magic \in {MagicBytes, Fill(8, 0)}, options \in {0, 2} :
           LET counts == [function_count |-> functions, string_count |-> strings,
                          string_storage_size |-> size]
               header == HeaderBytes(magic, options, counts)
           IN  \E payload \in Payloads(header, functions, 16 * functions + 4 * strings + size) :
                  file_bytes \in {header \o payload, Fill(HeaderSize - 1, 0)}
    /\ bytes_loaded = NotLoaded
    /\ reader_loaded = NotLoaded
    /\ pc = "comparing"
    /\ test_expr = NoTest
    /\ lower_result = NoLowered
    /\ FileIdle
    /\ GenIdle
    /\ instructions = <<>>
    /\ flow_graph = NoGraph
    /\ cfg = NoCfg
    /\ ast = NoAst
    /\ bytecode = <<>>
    /\ position = 0
    /\ decoded = <<>>
    /\ dis_pc = "idle"

NextLoaders ==
    \/ LoadFromBytes
    \/ LoadFromReader

SpecLoaders == InitLoaders /\ [][NextLoaders]_vars

(***************************************************************************)
(* Properties of the flow graph.                                           *)
(***************************************************************************)
IsJump(ins) == ins.op \in UncondJumps \cup CondJumps

\* the indices of the instructions that start at byte offset `off`
AtOffset(list, off) == {j \in 0..(Len(list) - 1) : list[j + 1].offset = off}

\* the out-edges of node i as a set of (destination, label) pairs, and their number
OutPairs(g, i) == {<<e.dst, e.w>> : e \in Range(Outgoing(g, i))}

FlowGraphBuilt == pc \in {"flow", "cfg", "done", "ast_panicked", "ast_diverged"}

NextIfAny(list, i) == IF i + 1 < Len(list) THEN {<<i + 1, FALSE>>} ELSE {}

\* C1: a flow graph that construct_flow_graph returns has one node per
\* instruction, and the out-edges of node i follow from the class of
\* instruction i alone: a conditional jump has one `true` edge to the
\* instruction at offset o + r and a `false` edge to i + 1 iff i + 1 exists;
\* Jmp/JmpLong has the single `false` edge to the instruction at offset o + r;
\* Ret and Throw have none; any other instruction has the single `false` edge
\* to i + 1 iff i + 1 exists.
C1_EdgesByClass ==
    FlowGraphBuilt =>
        /\ flow_graph.n = Len(instructions)
        /\ \A i \in 0..(Len(instructions) - 1) :
              LET ins == instructions[i + 1]
                  targets == AtOffset(instructions, ins.offset + ins.relative_offset)
                  expected ==
                      IF ins.op \in CondJumps
                      THEN {<<t, TRUE>> : t \in targets} \cup NextIfAny(instructions, i)
                      ELSE IF ins.op \in UncondJumps THEN {<<t, FALSE>> : t \in targets}
                      ELSE IF ins.op \in Terminators THEN {}
                      ELSE NextIfAny(instructions, i)
              IN  /\ OutPairs(flow_graph, i) = expected
                  /\ Len(Outgoing(flow_graph, i)) = Cardinality(expected)
                  /\ IsJump(ins) => Cardinality(targets) = 1

\* a graph was built for a list that holds a conditional jump with both edges,
\* an unconditional jump and a Ret or Throw
C1_Witness ==
    /\ pc = "flow"
    /\ \E i \in 0..(Len(instructions) - 1) :
          instructions[i + 1].op \in CondJumps /\ Len(Outgoing(flow_graph, i)) = 2
    /\ \E i \in 0..(Len(instructions) - 1) :
          instructions[i + 1].op \in UncondJumps /\ Len(Outgoing(flow_graph, i)) = 1
    /\ \E i \in 0..(Len(instructions) - 1) :
          instructions[i + 1].op \in Terminators /\ Len(Outgoing(flow_graph, i)) = 0

\* C2: jump targets are resolved by byte offset from the start of the jumping
\* instruction, at every index and for every sign of the relative offset: the
\* construction fails exactly when some jump has no instruction at offset
\* o + r, and otherwise the jump's edge goes to the instruction at o + r.
C2_ResolutionByOffset ==
    pc # "disassembled" =>
        LET unresolved ==
                \E i \in 0..(Len(instructions) - 1) :
                    /\ IsJump(instructions[i + 1])
                    /\ AtOffset(instructions,
                                instructions[i + 1].offset
                                    + instructions[i + 1].relative_offset) = {}
        IN  /\ (pc = "flow_panicked") <=> unresolved
            /\ FlowGraphBuilt =>
                  \A i \in 0..(Len(instructions) - 1) :
                      IsJump(instructions[i + 1]) =>
                          \E e \in Range(Outgoing(flow_graph, i)) :
                              e.dst \in AtOffset(instructions,
                                                 instructions[i + 1].offset
                                                     + instructions[i + 1].relative_offset)

(***************************************************************************)
(* Properties of the CFG.                                                  *)
(***************************************************************************)
CfgBuilt == pc \in {"cfg", "done", "ast_panicked", "ast_diverged"}

\* the instructions reachable from instruction 0 in the flow graph
FlowReachable == ReachFrom(flow_graph, {0}, {0})

\* how many times instruction i occurs in the blocks
Occurrences(i) ==
    Cardinality({<<b, k>> \in (1..Len(cfg.blocks)) \X (1..Len(instructions)) :
                    k <= Len(cfg.blocks[b]) /\ cfg.blocks[b][k] = i})

BlocksNonEmpty == \A b \in 1..Len(cfg.blocks) : cfg.blocks[b] # <<>>

\* C3 as stated: the blocks are non-empty and partition [0, n), unreachable
\* instructions included.
C3_PartitionOfAll ==
    CfgBuilt =>
        /\ BlocksNonEmpty
        /\ \A i \in 0..(Len(instructions) - 1) : Occurrences(i) = 1

\* C3: the blocks of construct_cfg are non-empty and partition the
\* instructions reachable from instruction 0: a reachable instruction is in
\* exactly one block, once, and an unreachable one is in no block.
C3_PartitionOfReachable ==
    CfgBuilt =>
        /\ BlocksNonEmpty
        /\ \A i \in 0..(Len(instructions) - 1) :
              Occurrences(i) = IF i \in FlowReachable THEN 1 ELSE 0

\* a CFG of several blocks built for a list with dead code
C3_Witness ==
    /\ pc = "cfg"
    /\ Len(cfg.blocks) >= 2
    /\ \E i \in 0..(Len(instructions) - 1) : i \notin FlowReachable

\* C4: every CFG edge A -> B with label L is backed by a flow-graph edge with
\* label L from the last instruction of A to the first instruction of B.
C4_EdgesBacked ==
    CfgBuilt =>
        \A e \in Range(cfg.edges) :
            \E f \in Range(flow_graph.edges) :
                /\ f.src = Last(cfg.blocks[e.src + 1])
                /\ f.dst = cfg.blocks[e.dst + 1][1]
                /\ f.w = e.w

\* a CFG with a `true` edge and a `false` edge between different blocks
C4_Witness ==
    /\ pc = "cfg"
    /\ \E e \in Range(cfg.edges) : e.w /\ e.src # e.dst
    /\ \E e \in Range(cfg.edges) : ~e.w /\ e.src # e.dst

\* instruction t is the first instruction of a block
IsBlockHead(t) == \E b \in 1..Len(cfg.blocks) : cfg.blocks[b][1] = t

\* instruction t comes right after instruction j inside one block
FollowsInBlock(j, t) ==
    \E b \in 1..Len(cfg.blocks) : \E k \in 1..(Len(cfg.blocks[b]) - 1) :
        cfg.blocks[b][k] = j /\ cfg.blocks[b][k + 1] = t

\* the jump edges of the flow graph: those out of a jump that go to its target
JumpEdges ==
    {e \in Range(flow_graph.edges) :
        /\ IsJump(instructions[e.src + 1])
        /\ instructions[e.src + 1].op \in CondJumps => e.w}

\* C5 as stated: CFG node 0 contains instruction 0 and the target of every
\* jump the CFG covers is the first instruction of its block.
C5_EveryTargetIsHead ==
    CfgBuilt =>
        /\ Len(cfg.blocks) >= 1
        /\ 0 \in Range(cfg.blocks[1])
        /\ \A e \in JumpEdges : e.src \in FlowReachable => IsBlockHead(e.dst)

\* C5: CFG node 0 starts with instruction 0.  A reachable jump's target is the
\* first instruction of its block when it has two or more incoming flow edges
\* or when the jump has two out-edges (a conditional jump that is not the last
\* instruction).  The target of a jump with a single out-edge that has no other
\* incoming edge and is not instruction 0 is not a block start: it follows the
\* jump inside the jump's block.
C5_TargetsThatAreHeads ==
    CfgBuilt =>
        /\ Len(cfg.blocks) >= 1
        /\ cfg.blocks[1][1] = 0
        /\ \A e \in JumpEdges :
              e.src \in FlowReachable =>
                  IF \/ Len(Incoming(flow_graph, e.dst)) >= 2
                     \/ Len(Outgoing(flow_graph, e.src)) >= 2
                     \/ e.dst = 0
                  THEN IsBlockHead(e.dst)
                  ELSE FollowsInBlock(e.src, e.dst) /\ ~IsBlockHead(e.dst)

\* a CFG where a Jmp was merged with its target and another jump's target
\* starts a block
C5_Witness ==
    /\ pc = "cfg"
    /\ \E e \in JumpEdges : FollowsInBlock(e.src, e.dst)
    /\ \E e \in JumpEdges : e.dst # 0 /\ e.src \in FlowReachable /\ IsBlockHead(e.dst)

\* the labels of the CFG edges out of block b (0-based), in a sequence
OutLabels(b) == [k \in 1..Len(Outgoing(cfg, b)) |-> Outgoing(cfg, b)[k].w]

EndsInCondJump(b) == instructions[Last(cfg.blocks[b + 1]) + 1].op \in CondJumps

InstructionBytes(ins) == 1 + get_bytecode_size(ins.op)

\* the slab ends inside the instruction that starts at `position`
EndsMidInstruction ==
    /\ dis_pc = "reading"
    /\ position < Len(bytecode)
    /\ IsOpcode(bytecode[position + 1])
    /\ position + InstructionBytes([op |-> OpOfByte(bytecode[position + 1])]) > Len(bytecode)

\* the returned list tiles the slab
ConsumesSlab ==
    dis_pc = "returned" =>
        /\ instructions # <<>> => instructions[1].offset = 0
        /\ \A k \in 1..(Len(instructions) - 1) :
              instructions[k + 1].offset =
                  instructions[k].offset + InstructionBytes(instructions[k])
        /\ SumSeq([k \in 1..Len(instructions) |-> InstructionBytes(instructions[k])])
              = Len(bytecode)

\* C7: when disassemble_function returns, the first offset is 0, each next
\* offset is the previous one plus 1 plus get_bytecode_size of the previous
\* opcode, and the instructions' sizes add up to the length of the slab; when
\* the slab ends inside an instruction the disassembly fails and returns no list.
C7_ConsumesExactlyTheSlab ==
    /\ []ConsumesSlab
    /\ [][EndsMidInstruction => dis_pc' = "panicked"]_vars

\* a returned list of two instructions, one of them with a two-byte operand
C7_Witness ==
    /\ dis_pc = "returned"
    /\ Len(instructions) >= 2
    /\ \E k \in 1..Len(instructions) : instructions[k].op = "NewArray"
    /\ Len(bytecode) = 5

(***************************************************************************)
(* Properties of the lifting.                                              *)
(***************************************************************************)
AstGenerated == pc \in {"done", "ast_panicked", "ast_diverged"}

\* C8: [LoadConstTrue r0; JmpTrue r0 -> (LoadConstUInt8 r1 1); LoadConstZero r1;
\* Jmp -> Ret; LoadConstUInt8 r1 1; Ret r1] lifts to exactly
\* r0 = true; if (r0) { r1 = 1; } else { r1 = 0; } return r1;
\* one IfStatement with consequent and alternate, the join block once.
C8_IfElseJoins ==
    (instructions = IfElseProgram /\ AstGenerated) =>
        /\ pc = "done"
        /\ ast.stmts =
              <<ExprStmt(Assign(Ident(0), BoolLit(TRUE))),
                IfElseStmt(Ident(0),
                           <<ExprStmt(Assign(Ident(1), Num(1)))>>,
                           <<ExprStmt(Assign(Ident(1), Num(0)))>>),
                ReturnStmt(Ident(1))>>

EndsWithReturnOrThrow(stmts) ==
    stmts # <<>> /\ Last(stmts).t \in {"return", "throw"}

\* CFG node v has two successors that cannot reach each other
TrueDiamond(v) ==
    /\ Len(Outgoing(cfg, v)) = 2
    /\ TruTarget(cfg, v) # NoIndex
    /\ FalsTarget(cfg, v) # NoIndex
    /\ ~Reaches(cfg, TruTarget(cfg, v), FalsTarget(cfg, v))
    /\ ~Reaches(cfg, FalsTarget(cfg, v), TruTarget(cfg, v))

\* the streams of the two successors of v, as IfCheck collects them
FromTru(v, wc, dwc) ==
    Collect(cfg, instructions, TruTarget(cfg, v), FALSE, wc, dwc, MaxDepth - 1)

FromFals(v, wc, dwc) ==
    Collect(cfg, instructions, FalsTarget(cfg, v), FALSE, wc, dwc, MaxDepth - 1)

\* v is a true diamond with an extractable test whose true stream ends with a
\* return or a throw, and the false stream is generated
EarlyReturnCase(v, wc, dwc) ==
    /\ TrueDiamond(v)
    /\ IsTestable(instructions[Last(cfg.blocks[v + 1]) + 1])
    /\ FromTru(v, wc, dwc).status = "ok"
    /\ EndsWithReturnOrThrow(FromTru(v, wc, dwc).stmts)
    /\ FromFals(v, wc, dwc).status = "ok"

\* the block's statements, an if without alternate around the true stream,
\* then the false stream
EarlyReturnStream(v, wc, dwc) ==
    simple_instructions_to_ast(cfg, v, instructions)
    \o <<IfStmt(jump_inst_to_test(instructions[Last(cfg.blocks[v + 1]) + 1]),
                FromTru(v, wc, dwc).stmts)>>
    \o FromFals(v, wc, dwc).stmts

EarlyReturnResult(last_of_cons) ==
    <<ExprStmt(Assign(Ident(0), Num(0))),
      IfStmt(Ident(0), <<last_of_cons>>),
      ExprStmt(Assign(Ident(2), Num(7))),
      ReturnStmt(Ident(2))>>

\* C10: for a two-way block whose successors cannot reach each other, when
\* the stream generated from the `true` successor ends with a return or a
\* throw, the generator emits the if with the extracted test, the true stream
\* as consequent and no alternate, and continues with the stream of the
\* `false` successor; `if (r0) return r1; r2 = 7; return r2;` lifts to an if
\* without alternate followed by the rest.
C10_EarlyReturn ==
    AstGenerated =>
        /\ \A v \in 1..(Len(cfg.blocks) - 1) : \A wc \in {NoIndex, 0} :
              EarlyReturnCase(v, wc, NoIndex) =>
                  LET from_v == Collect(cfg, instructions, v, FALSE, wc, NoIndex, MaxDepth)
                  IN  /\ from_v.status = "ok"
                      /\ from_v.stmts = EarlyReturnStream(v, wc, NoIndex)
        /\ EarlyReturnCase(0, NoIndex, NoIndex) =>
              pc = "done" /\ ast.stmts = EarlyReturnStream(0, NoIndex, NoIndex)
        /\ instructions = EarlyReturnProgram =>
              pc = "done" /\ ast.stmts = EarlyReturnResult(ReturnStmt(Ident(1)))
        /\ instructions = EarlyThrowProgram =>
              pc = "done" /\ ast.stmts = EarlyReturnResult(ThrowStmt(Ident(1)))

\* the early return was lifted
C10_Witness ==
    /\ instructions = EarlyReturnProgram
    /\ pc = "done"
    /\ EarlyReturnCase(0, NoIndex, NoIndex)
    /\ \E k \in 1..Len(ast.stmts) : ast.stmts[k].t = "if" /\ ~ast.stmts[k].has_alt

\* CFG node v is entered from outside every cycle through it
EnteredFromOutside(v) ==
    v = 0 \/ \E e \in Range(cfg.edges) : e.dst = v /\ ~Reaches(cfg, v, e.src)

\* CFG node cond closes a test-at-bottom loop whose first block is node v: its
\* `true` edge returns to v, it has a `false` edge, and v reaches it
DoWhileLoop(v, cond) ==
    /\ EnteredFromOutside(v)
    /\ \E e \in Range(cfg.edges) : e.src = cond /\ e.dst = v /\ e.w
    /\ FalsTarget(cfg, cond) # NoIndex
    /\ Reaches(cfg, v, cond)
    /\ IsTestable(instructions[Last(cfg.blocks[cond + 1]) + 1])

\* the do-while statement of the loop (v, cond)
DoWhileOf(v, cond) ==
    DoWhileStmt(Paren(jump_inst_to_test(instructions[Last(cfg.blocks[cond + 1]) + 1])),
                Collect(cfg, instructions, v, TRUE, NoIndex, cond, MaxDepth - 1).stmts)

\* the stream generated from the `false` successor of cond
AfterDoWhile(cond) ==
    Collect(cfg, instructions, FalsTarget(cfg, cond), FALSE, NoIndex, NoIndex, MaxDepth - 1)

\* stream holds the do-while of (v, cond) once, then the continuation
LiftsToDoWhile(stream, v, cond) ==
    /\ stream.status = "ok"
    /\ \E k \in 1..Len(stream.stmts) :
          /\ stream.stmts[k] = DoWhileOf(v, cond)
          /\ \A j \in 1..(k - 1) : stream.stmts[j].t # "dowhile"
          /\ SubSeq(stream.stmts, k + 1, Len(stream.stmts)) = AfterDoWhile(cond).stmts

\* v is the first block of exactly one test-at-bottom loop and is in no other cycle
OnlyDoWhileLoop(v, cond) ==
    /\ DoWhileLoop(v, cond)
    /\ \A e \in Range(cfg.edges) :
          (e.dst = v /\ Reaches(cfg, v, e.src)) => e.src = cond

\* C11: a loop whose condition block's `true` edge returns to the loop's first
\* block lifts to exactly one DoWhileStatement: its test is the condition of
\* the condition block's last instruction, its body is generated from the
\* first block with do_while_cond_block = the condition block and
\* is_do_while_first_block = true, and generation continues at the condition
\* block's `false` successor.
C11_DoWhile ==
    AstGenerated =>
        \A v, cond \in 0..(Len(cfg.blocks) - 1) :
            OnlyDoWhileLoop(v, cond) =>
                LiftsToDoWhile(Collect(cfg, instructions, v, FALSE, NoIndex, NoIndex, MaxDepth),
                               v, cond)

\* the same for loops whose first block is not CFG node 0
C11_DoWhileAfterPrelude ==
    AstGenerated =>
        \A v, cond \in 1..(Len(cfg.blocks) - 1) :
            (OnlyDoWhileLoop(v, cond) /\ AfterDoWhile(cond).status = "ok") =>
                LiftsToDoWhile(Collect(cfg, instructions, v, FALSE, NoIndex, NoIndex, MaxDepth),
                               v, cond)

(***************************************************************************)
(* Properties of the extracted conditions.  Register values are JavaScript *)
(* primitives: undefined, NaN, the numbers 0..MaxNum and the booleans.     *)
(***************************************************************************)
JsUndefined == <<"undefined">>
JsNaN == <<"nan">>
JsNumber(n) == <<"number", n>>
JsBoolean(v) == <<"boolean", v>>

JsNumbers == {JsNaN} \cup {JsNumber(n) : n \in 0..MaxNum}
JsValues == {JsUndefined} \cup JsNumbers \cup {JsBoolean(v) : v \in BOOLEAN}

ToBoolean(x) ==
    CASE x[1] = "boolean" -> x[2]
      [] x[1] = "number"  -> x[2] # 0
      [] OTHER -> FALSE

ToNumber(x) ==
    CASE x[1] = "number"  -> x
      [] x[1] = "boolean" -> JsNumber(IF x[2] THEN 1 ELSE 0)
      [] OTHER -> JsNaN

\* the relational comparisons: false as soon as an operand converts to NaN
JsLess(x, y) ==
    ToNumber(x) # JsNaN /\ ToNumber(y) # JsNaN /\ ToNumber(x)[2] < ToNumber(y)[2]

JsLessEqual(x, y) ==
    ToNumber(x) # JsNaN /\ ToNumber(y) # JsNaN /\ ToNumber(x)[2] <= ToNumber(y)[2]

JsStrictEqual(x, y) == x = y /\ x # JsNaN

JsLooseEqual(x, y) ==
    IF x[1] = y[1] \/ {x[1], y[1]} = {"nan", "number"} THEN JsStrictEqual(x, y)
    ELSE IF JsUndefined \in {x, y} THEN FALSE
    ELSE JsStrictEqual(ToNumber(x), ToNumber(y))

JsBinary(o, x, y) ==
    CASE o = "<"   -> JsLess(x, y)
      [] o = "<="  -> JsLessEqual(x, y)
      [] o = ">"   -> JsLess(y, x)
      [] o = ">="  -> JsLessEqual(y, x)
      [] o = "=="  -> JsLooseEqual(x, y)
      [] o = "!="  -> ~JsLooseEqual(x, y)
      [] o = "===" -> JsStrictEqual(x, y)
      [] o = "!==" -> ~JsStrictEqual(x, y)

\* the value of an extracted expression under the register valuation regs
RECURSIVE Evaluate(_, _)
Evaluate(e, regs) ==
    CASE e[1] = "ident"  -> regs[e[2]]
      [] e[1] = "global" -> JsUndefined
      [] e[1] = "paren"  -> Evaluate(e[2], regs)
      [] e[1] = "unary!" -> JsBoolean(~ToBoolean(Evaluate(e[2], regs)))
      [] e[1] = "bin"    -> JsBoolean(JsBinary(e[2], Evaluate(e[3], regs),
                                               Evaluate(e[4], regs)))

\* the branch families by what the interpreter tests
LessOps == {"JLess", "JLessLong", "JLessN", "JLessNLong"}
NotLessOps == {"JNotLess", "JNotLessLong", "JNotLessN", "JNotLessNLong"}
LessEqualOps == {"JLessEqual", "JLessEqualLong", "JLessEqualN", "JLessEqualNLong"}
NotLessEqualOps ==
    {"JNotLessEqual", "JNotLessEqualLong", "JNotLessEqualN", "JNotLessEqualNLong"}
GreaterOps == {"JGreater", "JGreaterLong", "JGreaterN", "JGreaterNLong"}
NotGreaterOps == {"JNotGreater", "JNotGreaterLong", "JNotGreaterN", "JNotGreaterNLong"}
GreaterEqualOps ==
    {"JGreaterEqual", "JGreaterEqualLong", "JGreaterEqualN", "JGreaterEqualNLong"}
NotGreaterEqualOps ==
    {"JNotGreaterEqual", "JNotGreaterEqualLong", "JNotGreaterEqualN",
     "JNotGreaterEqualNLong"}

\* the numeric-only variants, whose operands are numbers
NumericOps ==
    {"JLessN", "JLessNLong", "JNotLessN", "JNotLessNLong", "JLessEqualN",
     "JLessEqualNLong", "JNotLessEqualN", "JNotLessEqualNLong", "JGreaterN",
     "JGreaterNLong", "JNotGreaterN", "JNotGreaterNLong", "JGreaterEqualN",
     "JGreaterEqualNLong", "JNotGreaterEqualN", "JNotGreaterEqualNLong"}

\* the interpreter takes the branch ins under the register valuation regs
BranchTaken(ins, regs) ==
    LET x == regs[ins.a]
        y == regs[ins.b]
    IN  CASE ins.op \in {"JmpTrue", "JmpTrueLong"} -> ToBoolean(x)
          [] ins.op \in {"JmpFalse", "JmpFalseLong"} -> ~ToBoolean(x)
          [] ins.op \in {"JmpUndefined", "JmpUndefinedLong"} -> x = JsUndefined
          [] ins.op \in LessOps -> JsLess(x, y)
          [] ins.op \in NotLessOps -> ~JsLess(x, y)
          [] ins.op \in LessEqualOps -> JsLessEqual(x, y)
          [] ins.op \in NotLessEqualOps -> ~JsLessEqual(x, y)
          [] ins.op \in GreaterOps -> JsLess(y, x)
          [] ins.op \in NotGreaterOps -> ~JsLess(y, x)
          [] ins.op \in GreaterEqualOps -> JsLessEqual(y, x)
          [] ins.op \in NotGreaterEqualOps -> ~JsLessEqual(y, x)
          [] ins.op \in {"JEqual", "JEqualLong"} -> JsLooseEqual(x, y)
          [] ins.op \in {"JNotEqual", "JNotEqualLong"} -> ~JsLooseEqual(x, y)
          [] ins.op \in {"JStrictEqual", "JStrictEqualLong"} -> JsStrictEqual(x, y)
          [] ins.op \in {"JStrictNotEqual", "JStrictNotEqualLong"} -> ~JsStrictEqual(x, y)

\* the valuations a branch can run under
Valuations(ins) ==
    [0..MaxReg -> IF ins.op \in NumericOps THEN JsNumbers ELSE JsValues]

\* the expression of the spec's table for a branch on registers a and b
TableExpression(ins) ==
    LET a == Ident(ins.a)
        b == Ident(ins.b)
        o == CASE ins.op \in LessOps \cup NotLessOps -> "<"
               [] ins.op \in LessEqualOps \cup NotLessEqualOps -> "<="
               [] ins.op \in GreaterOps \cup NotGreaterOps -> ">"
               [] ins.op \in GreaterEqualOps \cup NotGreaterEqualOps -> ">="
               [] ins.op \in {"JEqual", "JEqualLong"} -> "=="
               [] ins.op \in {"JNotEqual", "JNotEqualLong"} -> "!="
               [] ins.op \in {"JStrictEqual", "JStrictEqualLong"} -> "==="
               [] ins.op \in {"JStrictNotEqual", "JStrictNotEqualLong"} -> "!=="
               [] OTHER -> "none"
    IN  CASE ins.op \in {"JmpTrue", "JmpTrueLong"} -> a
          [] ins.op \in {"JmpFalse", "JmpFalseLong"} -> Bang(a)
          [] ins.op \in {"JmpUndefined", "JmpUndefinedLong"} ->
                Bin("===", a, <<"global", "undefined">>)
          [] ins.op \in NotLessOps \cup NotLessEqualOps \cup NotGreaterOps
                        \cup NotGreaterEqualOps -> Bang(Paren(Bin(o, a, b)))
          [] OTHER -> Bin(o, a, b)

\* C12: for every conditional branch and every valuation of its registers the
\* expression jump_inst_to_test returns is true iff the branch is taken, and
\* it is the expression of the table: r, !r, r === undefined, a <op> b,
\* !(a <op> b), ==, !=, ===, !==, the same for the Long and N variants.
C12_TestMatchesBranch ==
    pc = "tested" =>
        /\ test_expr = TableExpression(instructions[1])
        /\ \A regs \in Valuations(instructions[1]) :
              ToBoolean(Evaluate(test_expr, regs)) = BranchTaken(instructions[1], regs)

\* the test of a negated two-register comparison was extracted
C12_Witness ==
    /\ pc = "tested"
    /\ instructions[1].op = "JNotGreaterEqualNLong"
    /\ instructions[1].a # instructions[1].b
    /\ test_expr[1] = "unary!"

(***************************************************************************)
(* Properties of the lowering's failures.                                  *)
(***************************************************************************)
\* the first instruction of the lowered block with an unsupported opcode
FirstUnsupported ==
    LET ks == {k \in 1..Len(instructions) : instructions[k].op \in UnsupportedOps}
    IN  instructions[CHOOSE k \in ks : \A j \in ks : k <= j]

HasUnsupported == \E k \in 1..Len(instructions) : instructions[k].op \in UnsupportedOps

\* C13: lowering a block that contains an unsupported opcode produces no
\* statements and fails, and the failure message names the opcode that could
\* not be lifted.
C13_FailureNamesOpcode ==
    (pc \in {"lowered", "lower_panicked"} /\ HasUnsupported) =>
        /\ lower_result.status = "panic"
        /\ lower_result.stmts = <<>>
        /\ FirstUnsupported.op \in Range(lower_result.message)

\* the part of C13 that holds: no statements, and a failure
C13_FailureWithoutStatements ==
    (pc \in {"lowered", "lower_panicked"} /\ HasUnsupported) =>
        lower_result.status = "panic" /\ lower_result.stmts = <<>>

(***************************************************************************)
(* Properties of the container loader and of get_string.                   *)
(***************************************************************************)
StringRead == pc = "string_read"

\* the small entry get_string was asked for
AskedEntry == file.string_table_entries[called.before + 1]

\* the length field holds the overflow sentinel
IsOverflowed(entry) == entry.length = 255

InStorage(entry) == entry.offset + entry.length <= Len(file.string_storage)

\* what the slice of an entry's (offset, length) is, None for length 0
StringOf(entry) ==
    IF entry.length = 0
    THEN [status |-> "None", bytes |-> <<>>]
    ELSE [status |-> "Some",
          bytes |-> SubSeq(file.string_storage, entry.offset + 1,
                           entry.offset + entry.length)]

\* C14: get_string(i) returns the storage slice of small entry i's (offset,
\* length), or, when the entry's length is the sentinel 255, the slice of the
\* (offset, length) of an entry of the overflow table; None iff that length
\* is 0.  Stated for entries that lie inside the storage.
C14_StringBySentinel ==
    StringRead =>
        IF IsOverflowed(AskedEntry)
        THEN (/\ file.string_table_overflow_entries # <<>>
              /\ \A k \in DOMAIN file.string_table_overflow_entries :
                    InStorage(file.string_table_overflow_entries[k]))
             => \E k \in DOMAIN file.string_table_overflow_entries :
                    string_result = StringOf(file.string_table_overflow_entries[k])
        ELSE InStorage(AskedEntry) => string_result = StringOf(AskedEntry)

\* the part of C14 that the code has: an entry whose length is not the
\* sentinel is sliced by its own fields
C14_StringBySmallEntry ==
    (StringRead /\ ~IsOverflowed(AskedEntry) /\ InStorage(AskedEntry))
        => string_result = StringOf(AskedEntry)

Loaded == pc \in {"loaded", "load_failed"}

\* the stream ends before the last table does
Truncated(c) == c.available < Len(c.entries) + Len(c.overflow) + Len(c.storage)

\* a small entry that carries its own length reaches past the storage
EntryPastStorage(c) ==
    \E k \in DOMAIN c.entries :
        /\ ~IsOverflowed(c.entries[k])
        /\ c.entries[k].offset + c.entries[k].length > Len(c.storage)

\* C16: loading fails when a string table entry's (offset, length) extends
\* past string_storage and when a table is truncated; a wrong magic number
\* or a version other than 93 alone never makes the load fail.
C16_LoadValidates ==
    Loaded =>
        /\ (EntryPastStorage(container) \/ Truncated(container)) => file.status = "err"
        /\ (~EntryPastStorage(container) /\ ~Truncated(container)) => file.status = "ok"

\* the part of C16 that the code has: the load fails exactly on a truncated
\* table, whatever the magic number and the version are
C16_LoadFailsOnTruncation ==
    Loaded => (file.status = "err" <=> Truncated(container))

(***************************************************************************)
(* Properties of the reader helpers.                                       *)
(***************************************************************************)
HelperReturned == pc = "helper_returned" /\ called.status = "ok"

\* C15: every helper that seeks inside the shared reader (read_large_header,
\* read_exception_handlers and read_bytecode on both header forms) leaves
\* the reader's position as it was at the moment of the call.
C15_PositionRestored ==
    HelperReturned => reader_position = called.before

\* the part of C15 that the code has: read_large_header and the small
\* header's read_bytecode seek back to the position they found
C15_PositionRestoredBySmallHeader ==
    (HelperReturned
        /\ called.helper \in {"read_large_header", "SmallFuncHeader::read_bytecode"})
        => reader_position = called.before

(***************************************************************************)
(* The smallest function: one Ret.                                         *)
(***************************************************************************)
RetR0 == [offset |-> 0, op |-> "Ret", relative_offset |-> 0, a |-> 0, b |-> 0]

\* the driver has stopped, with or without a result
DriverStopped ==
    \/ dis_pc = "panicked"
    \/ pc \in {"empty", "flow_panicked", "done", "ast_panicked", "ast_diverged"}

\* the slab decodes to Ret r0 at offset 0 and lifts to `return r0;`
LiftsToReturnR0 ==
    /\ dis_pc # "panicked"
    /\ dis_pc = "returned" => instructions = <<RetR0>>
    /\ pc \in {"flow", "cfg", "done"} => flow_graph = [ok |-> TRUE, n |-> 1, edges |-> <<>>]
    /\ pc \in {"cfg", "done"} => cfg = [blocks |-> <<<<0>>>>, n |-> 1, edges |-> <<>>]
    /\ DriverStopped =>
          pc = "done" /\ ast.status = "ok" /\ ast.stmts = <<ReturnStmt(Ident(0))>>

\* C17: the slab [0x55, 0x00] decodes to the single instruction
\* Ret{value_reg: 0} at offset 0, its flow graph has 1 node and 0 edges, its
\* CFG is the one block [0], and the AST is the single statement `return r0;`.
C17_Slab55IsRet ==
    bytecode = <<85, 0>> => LiftsToReturnR0

\* C17 for the byte Ret has in the v93 enum: the slab [0x5A, 0x00] decodes to
\* Ret{value_reg: 0} at offset 0 and lifts to `return r0;` through a flow
\* graph of 1 node and 0 edges and a CFG of the one block [0].
C17_Slab5AIsRet ==
    bytecode = <<90, 0>> => LiftsToReturnR0

C17_Witness ==
    /\ bytecode = <<90, 0>>
    /\ pc = "done"
    /\ instructions = <<RetR0>>
    /\ ast.stmts = <<ReturnStmt(Ident(0))>>

(***************************************************************************)
(* Termination of the generator.                                           *)
(***************************************************************************)
\* C18: collecting the AstGenerator from CFG block 0 terminates for a while
\* loop nested inside the body of another while loop and for an if inside a
\* loop: no generator is started again, unbounded, for a loop header whose
\* body is being generated.
C18_StructuredTerminates ==
    (pc \in {"done", "ast_panicked", "ast_diverged"}
        /\ instructions \in {NestedWhileProgram, IfInWhileProgram})
        => pc = "done"

\* the part of C18 that the code has: the if inside a while loop is lifted
C18_IfInsideWhileTerminates ==
    (pc \in {"done", "ast_panicked", "ast_diverged"} /\ instructions = IfInWhileProgram)
        => pc = "done"

(***************************************************************************)
(* The generator at the condition block of the loop it is the body of.     *)
(***************************************************************************)
\* the blocks a generator can arrive at: those with an incoming edge
CfgNodes == {v \in 0..(cfg.n - 1) : Incoming(cfg, v) # <<>>}

\* AstGenerator::new(.., v, false, Some(v), None) collected
AtWhileCond(v) == Collect(cfg, instructions, v, FALSE, v, NoIndex, MaxDepth)

\* AstGenerator::new(.., v, false, None, Some(v)) collected
AtDoWhileCond(v) == Collect(cfg, instructions, v, FALSE, NoIndex, v, MaxDepth)

\* C19: a generator whose current block is its while_cond_block yields
\* exactly the one statement `continue;` and is then exhausted.
C19_ContinueAtWhileCond ==
    CfgBuilt =>
        \A v \in CfgNodes :
            AtWhileCond(v).status = "ok" /\ AtWhileCond(v).stmts = <<ContinueStmt>>

\* the part of C19 that the code has: no instruction of the block is lowered
\* and no successor is followed
C19_NothingElseAtWhileCond ==
    CfgBuilt =>
        \A v \in CfgNodes :
            /\ AtWhileCond(v).status = "ok"
            /\ \A k \in DOMAIN AtWhileCond(v).stmts : AtWhileCond(v).stmts[k] = ContinueStmt

\* C20: a generator whose current block is its do_while_cond_block (and not
\* its while_cond_block) yields the lowered statements of that block, in
\* order, and nothing after them.
C20_StatementsAtDoWhileCond ==
    CfgBuilt =>
        \A v \in CfgNodes :
            LowerBlock(cfg, v, instructions).status = "ok" =>
                /\ AtDoWhileCond(v).status = "ok"
                /\ AtDoWhileCond(v).stmts = simple_instructions_to_ast(cfg, v, instructions)

\* the part of C20 that the code has: nothing after the condition block is
\* generated
C20_NothingAfterDoWhileCond ==
    CfgBuilt =>
        \A v \in CfgNodes :
            LowerBlock(cfg, v, instructions).status = "ok" =>
                /\ AtDoWhileCond(v).status = "ok"
                /\ Len(AtDoWhileCond(v).stmts)
                      <= Len(simple_instructions_to_ast(cfg, v, instructions))

\* C20, the consequence: the body of the do-while emitted for
\* r0 = 0; do { r0++; } while (r0); return r0; holds the lowered statement of
\* the loop's condition block, r0++.
C20_DoWhileBodyHoldsCondBlock ==
    (instructions = DoWhileProgram /\ AstGenerated) =>
        \E k \in DOMAIN ast.stmts :
            /\ ast.stmts[k].t = "dowhile"
            /\ \E j \in DOMAIN ast.stmts[k].body :
                  ast.stmts[k].body[j] = ExprStmt(PostInc(Ident(0)))

(***************************************************************************)
(* The preparatory statements of a while header.                           *)
(***************************************************************************)
\* the statements of kind t among the top-level statements of a stream
StmtsOfKind(stmts, t) == {k \in DOMAIN stmts : stmts[k].t = t}

\* C21: the while loop emitted for a header block with more than one
\* instruction index has the header's lowered preparatory statements in its
\* body immediately before the `continue;` that ends the body.  For
\* r0 = 0; while (r1 = 10, r0) { r0++; } the body ends with
\* r1 = 10; continue;
C21_PrepBeforeContinue ==
    (instructions = PrepWhileProgram /\ AstGenerated) =>
        /\ pc = "done"
        /\ \E k \in StmtsOfKind(ast.stmts, "while") :
              \E j \in 1..(Len(ast.stmts[k].body) - 1) :
                 /\ ast.stmts[k].body[j] = ExprStmt(Assign(Ident(1), Num(10)))
                 /\ ast.stmts[k].body[j + 1] = ContinueStmt

\* what the code does with the header's preparatory statement: it is
\* emitted once, before the while, and the body is the loop's own block
C21_PrepBeforeWhile ==
    (instructions = PrepWhileProgram /\ AstGenerated) =>
        /\ pc = "done"
        /\ ast.stmts =
              <<ExprStmt(Assign(Ident(0), Num(0))),
                ExprStmt(Assign(Ident(1), Num(10))),
                WhileStmt(Bang(Paren(Bang(Ident(0)))), <<ExprStmt(PostInc(Ident(0)))>>),
                ReturnStmt(Ident(0))>>

(***************************************************************************)
(* The unconditional tail of a loop candidate.                             *)
(***************************************************************************)
\* C22: a loop whose candidate condition block ends in Jmp or JmpLong is a
\* while-do with the condition of the current block's last instruction, and
\* neither Jmp nor JmpLong is passed to the condition extractor.  The while
\* loop of scenario 4 with a JmpLong back edge lifts to the same while.
C22_JmpLongIsWhile ==
    (instructions = WhileLongProgram /\ AstGenerated) =>
        /\ pc = "done"
        /\ ast.stmts =
              <<ExprStmt(Assign(Ident(0), Num(0))),
                ExprStmt(Assign(Ident(1), Num(10))),
                WhileStmt(Bang(Paren(Bang(Ident(0)))), <<ExprStmt(PostInc(Ident(0)))>>),
                ReturnStmt(Ident(0))>>

\* what the code does on the JmpLong back edge: the JmpLong reaches
\* jump_inst_to_test, which panics
C22_JmpLongPanics ==
    (instructions = WhileLongProgram /\ AstGenerated) => pc = "ast_panicked"

(***************************************************************************)
(* The iterator against the collected stream.                              *)
(***************************************************************************)
Exhausted == pc = "exhausted"

\* the first generator collected in one piece
CollectedFromStart ==
    Collect(cfg, instructions, gen_start.node, gen_start.is_do_while_first_block,
            gen_start.while_cond_block, gen_start.do_while_cond_block, MaxDepth)

\* the steps of next yield the stream Collect gives, and end as it ends
StepsAgreeWithCollect ==
    /\ Exhausted =>
          /\ CollectedFromStart.status = "ok"
          /\ CollectedFromStart.stmts = yielded
          /\ CollectedFromStart.ret = gen.is_last_instruction_return
    /\ pc = "gen_panicked" => CollectedFromStart.status = "panic"
    /\ pc = "gen_diverged" => CollectedFromStart.status = "diverged"

(***************************************************************************)
(* The if without else.                                                    *)
(***************************************************************************)
\* LoopCheck lifts the block of generator g as a loop
DetectsLoop(g) ==
    /\ ~g.is_do_while_first_block
    /\ Len(Incoming(cfg, g.node)) >= 2
    /\ LoopCandidate(cfg, <<g.node>>, ReachableAvoiding(cfg, g.node),
                     ReachableAvoiding(cfg, g.node),
                     {e.src : e \in Range(Incoming(cfg, g.node))}) # NoIndex

\* generator g passes its block on to the if stage
ReachesIfCheck(g) ==
    /\ g.while_cond_block # g.node
    /\ g.do_while_cond_block # g.node
    /\ ~DetectsLoop(g)

\* the block of the first generator ends in a branch the if stage handles
StartsAtBranch ==
    /\ ReachesIfCheck(gen_start)
    /\ Len(Outgoing(cfg, gen_start.node)) = 2
    /\ TruTarget(cfg, gen_start.node) # NoIndex
    /\ FalsTarget(cfg, gen_start.node) # NoIndex

StartTru == TruTarget(cfg, gen_start.node)

StartFals == FalsTarget(cfg, gen_start.node)

\* the extracted condition of the first generator's block
StartTest ==
    jump_inst_to_test(instructions[Last(cfg.blocks[gen_start.node + 1]) + 1])

StartLowered == simple_instructions_to_ast(cfg, gen_start.node, instructions)

\* the stream of a generator at `node` with the condition blocks of the first
InheritingStream(node) ==
    Collect(cfg, instructions, node, FALSE, gen_start.while_cond_block,
            gen_start.do_while_cond_block, MaxDepth - 1).stmts

\* C23: for a block with two outgoing edges that the if stage handles: when
\* the `false` successor reaches the `true` successor the stream is the
\* block's statements, `if (cond) { stream of the true successor }` without
\* alternate, then the stream continued at the `false` successor; otherwise,
\* when the `true` successor reaches the `false` successor, it is
\* `if (!(cond)) { stream of the false successor }` and then the stream
\* continued at the `true` successor.  The if precedes the continuation, and
\* the continuation runs with the same while_cond_block and
\* do_while_cond_block.
C23_IfWithoutElse ==
    (Exhausted /\ StartsAtBranch) =>
        IF Reaches(cfg, StartFals, StartTru)
        THEN yielded = StartLowered
                         \o <<IfStmt(StartTest, InheritingStream(StartTru))>>
                         \o InheritingStream(StartFals)
        ELSE Reaches(cfg, StartTru, StartFals) =>
               yielded = StartLowered
                           \o <<IfStmt(Bang(Paren(StartTest)), InheritingStream(StartFals))>>
                           \o InheritingStream(StartTru)

\* an if inside a while body: the continuation stops at the inherited
\* while_cond_block after the statement that follows the if
C23_Witness ==
    /\ Exhausted
    /\ StartsAtBranch
    /\ Reaches(cfg, StartFals, StartTru)
    /\ gen_start.while_cond_block # NoIndex
    /\ Len(yielded) >= 2
    /\ yielded[1].t = "if"

\* the other direction: the `true` successor reaches the `false` successor
C23_WitnessNegated ==
    /\ Exhausted
    /\ StartsAtBranch
    /\ ~Reaches(cfg, StartFals, StartTru)
    /\ Reaches(cfg, StartTru, StartFals)
    /\ yielded # <<>>

(***************************************************************************)
(* The queue and the stages of one generator.                              *)
(***************************************************************************)
\* a step in which populate_next_stage ran: the stage moved, or the call
\* ended the iteration
Populates == gen'.stage # gen.stage \/ pc' # pc

\* a step in which *self became the chained iterator
Replaces == gen.chained_iterator # NoGen /\ gen' = gen.chained_iterator

\* C24: populate_next_stage is invoked only when the statement queue is
\* empty, and the chained iterator replaces the current one only when the
\* queue is empty and the current stage has nothing more to yield.
C24_QueueDrainedFirst ==
    [][/\ Populates => gen.stmt_queue = <<>>
       /\ Replaces => gen.stmt_queue = <<>> /\ gen.stage = "ProcessingDone"]_vars

\* a stream of several statements yielded by more than one generator
C24_Witness ==
    /\ Exhausted
    /\ gen.depth < MaxDepth
    /\ Len(yielded) >= 3


(***************************************************************************)
(* Loops in the output of an acyclic CFG.                                  *)
(***************************************************************************)
\* no block reaches itself along one or more edges
Acyclic(c) == \A v \in 0..(Len(c.blocks) - 1) : v \notin ReachFrom(c, {v}, {})

\* a block that two or more edges enter
JoinBlocks(c) == {v \in 0..(Len(c.blocks) - 1) : Len(Incoming(c, v)) >= 2}

RECURSIVE ContainsLoop(_)
ContainsLoop(stmts) ==
    \E k \in 1..Len(stmts) :
        \/ stmts[k].t \in {"while", "dowhile"}
        \/ /\ stmts[k].t = "if"
           /\ ContainsLoop(stmts[k].cons) \/ ContainsLoop(stmts[k].alt)

\* C25: the statement tree generated from block 0 of a CFG without a cycle
\* contains no WhileStatement and no DoWhileStatement, at any depth
C25_AcyclicHasNoLoop ==
    (pc = "done" /\ Acyclic(cfg)) => ~ContainsLoop(ast.stmts)

\* the arms of an if merge in a join block that ends in a branch of its own
C25_Witness ==
    /\ pc = "done"
    /\ Acyclic(cfg)
    /\ \E v \in JoinBlocks(cfg) : Len(Outgoing(cfg, v)) = 2
    /\ \E k \in 1..Len(ast.stmts) : ast.stmts[k].t = "if"


(***************************************************************************)
(* Polarity of the control statements against the edge labels.             *)
(***************************************************************************)
\* the blocks the edges of block v labelled w lead to
LabelledSuccs(c, v, w) == {e.dst : e \in {x \in Range(c.edges) : x.src = v /\ x.w = w}}

\* the condition extracted from the branch that ends block v
BranchTest(v) == jump_inst_to_test(instructions[Last(cfg.blocks[v + 1]) + 1])

Branching == {v \in 0..(Len(cfg.blocks) - 1) :
                 IsTestable(instructions[Last(cfg.blocks[v + 1]) + 1])}

\* the statement populate_next_stage has just queued is a control statement
Emitted(kind) ==
    /\ pc = "generating"
    /\ gen.stmt_queue # <<>>
    /\ Head(gen.stmt_queue).t = kind

\* the statements of an arm of the branch of gen.node that starts at a block of `starts`
IsArm(stmts, starts) ==
    \E n \in starts :
        stmts = Collect(cfg, instructions, n, FALSE, gen.while_cond_block,
                        gen.do_while_cond_block, gen.depth - 1).stmts

IfPolarity(s) ==
    /\ gen.node \in Branching
    /\ \/ s.test = BranchTest(gen.node)
       \/ s.test = Bang(Paren(BranchTest(gen.node)))
    /\ s.test = BranchTest(gen.node) =>
           IsArm(s.cons, LabelledSuccs(cfg, gen.node, TRUE))
    /\ s.test = Bang(Paren(BranchTest(gen.node))) =>
           /\ IsArm(s.cons, LabelledSuccs(cfg, gen.node, FALSE))
           /\ ~s.has_alt
    /\ s.has_alt => IsArm(s.alt, LabelledSuccs(cfg, gen.node, FALSE))

WhilePolarity(s) ==
    \E b \in Branching :
        /\ s.test = Bang(Paren(BranchTest(b)))
        /\ \E n \in LabelledSuccs(cfg, b, FALSE) :
               s.body = Collect(cfg, instructions, n, FALSE, gen.node,
                                gen.do_while_cond_block, gen.depth - 1).stmts
        /\ gen.chained_iterator # NoGen
        /\ gen.chained_iterator.node \in LabelledSuccs(cfg, b, TRUE)

DoWhilePolarity(s) ==
    \E b \in Branching :
        /\ s.test = Paren(BranchTest(b))
        /\ gen.node \in LabelledSuccs(cfg, b, TRUE)
        /\ gen.chained_iterator # NoGen
        /\ gen.chained_iterator.node \in LabelledSuccs(cfg, b, FALSE)

\* C26: every control statement a generator emits agrees with the edge
\* labels: an if on the condition takes its consequent from the true
\* successor and an if on the negated condition from the false successor;
\* a while has the test !(cond), its body from the false successor of the
\* condition block and what follows from the true successor; a do-while
\* has the test cond, the true successor of its condition block is the
\* loop's first block and what follows comes from the false successor
C26_PolarityFollowsLabels ==
    /\ Emitted("if") => IfPolarity(Head(gen.stmt_queue))
    /\ Emitted("while") => WhilePolarity(Head(gen.stmt_queue))
    /\ Emitted("dowhile") => DoWhilePolarity(Head(gen.stmt_queue))

\* a while whose body is not empty has been queued
C26_Witness == Emitted("while") /\ Head(gen.stmt_queue).body # <<>>

C26_WitnessDoWhile == Emitted("dowhile") /\ gen.chained_iterator # NoGen

C26_WitnessNegatedIf ==
    /\ Emitted("if")
    /\ Head(gen.stmt_queue).test = Bang(Paren(BranchTest(gen.node)))
    /\ Head(gen.stmt_queue).cons # <<>>

C26_WitnessIfElse == Emitted("if") /\ Head(gen.stmt_queue).has_alt


(***************************************************************************)
(* The first block of a do-while.                                          *)
(***************************************************************************)
\* the lowered statements of the block the generator is at
FirstBlockStmts == simple_instructions_to_ast(cfg, gen.node, instructions)

\* the positions of `outer` at which `part` starts as a run of statements
RunsOf(part, outer) ==
    {k \in 1..(Len(outer) - Len(part) + 1) : SubSeq(outer, k, k + Len(part) - 1) = part}

\* the statements yielded so far end with `part`
YieldedEndsWith(part) ==
    /\ Len(yielded) >= Len(part)
    /\ SubSeq(yielded, Len(yielded) - Len(part) + 1, Len(yielded)) = part

\* C27: when a do-while is emitted, the lowered statements of the loop's
\* first block appear exactly once, inside the do-while body, and not as
\* statements preceding the DoWhileStatement
C27_FirstBlockOnlyInBody ==
    (Emitted("dowhile") /\ FirstBlockStmts # <<>>) =>
        /\ Cardinality(RunsOf(FirstBlockStmts, Head(gen.stmt_queue).body)) = 1
        /\ ~YieldedEndsWith(FirstBlockStmts)

\* what the code does: the first block's statements always precede the
\* DoWhileStatement
C27_FirstBlockPrecedesDoWhile ==
    Emitted("dowhile") => YieldedEndsWith(FirstBlockStmts)


(***************************************************************************)
(* The edges of the flow graph in the CFG.                                 *)
(***************************************************************************)
\* the flow-graph edges out of an instruction reachable from instruction 0
ReachableFlowEdges == {e \in Range(flow_graph.edges) : e.src \in FlowReachable}

\* flow edge e runs from the last instruction of a block to the first of a block
BetweenBlocks(e) ==
    \E a, b \in 1..Len(cfg.blocks) :
        Last(cfg.blocks[a]) = e.src /\ cfg.blocks[b][1] = e.dst

\* the CFG has the edge of flow edge e, with its label
KeptInCfg(e) ==
    \E a, b \in 1..Len(cfg.blocks) :
        /\ Last(cfg.blocks[a]) = e.src
        /\ cfg.blocks[b][1] = e.dst
        /\ \E x \in Range(cfg.edges) : x.src = a - 1 /\ x.dst = b - 1 /\ x.w = e.w

\* another flow edge joins the same two instructions
HasParallel(e) ==
    \E k, l \in 1..Len(flow_graph.edges) :
        /\ k # l
        /\ flow_graph.edges[k] = e
        /\ flow_graph.edges[l].src = e.src
        /\ flow_graph.edges[l].dst = e.dst

\* C28: construct_cfg loses no edge: a flow-graph edge between reachable
\* instructions is interior to a block or runs from the last instruction of a
\* block A to the first instruction of a block B, and then the CFG has an
\* edge A -> B with the same label; so a conditional jump to the immediately
\* following instruction keeps both its true and its false edge
C28_NoEdgeLost ==
    CfgBuilt =>
        \A e \in ReachableFlowEdges :
            \/ FollowsInBlock(e.src, e.dst)
            \/ BetweenBlocks(e) /\ KeptInCfg(e)

\* what the code keeps: every edge lies inside a block or between two
\* blocks, and is in the CFG with its label unless it is the `false` edge
\* of a pair of parallel edges
C28_OnlyParallelFalseEdgeLost ==
    CfgBuilt =>
        \A e \in ReachableFlowEdges :
            \/ FollowsInBlock(e.src, e.dst)
            \/ /\ BetweenBlocks(e)
               /\ KeptInCfg(e) \/ (HasParallel(e) /\ ~e.w)


(***************************************************************************)
(* The order of the stages of one generator.                               *)
(***************************************************************************)
StageRank(stage) ==
    CASE stage = "BeginProcessBlock" -> 0
      [] stage = "LoopCheck"         -> 1
      [] stage = "IfCheck"           -> 2
      [] stage = "AfterIf"           -> 3
      [] stage = "ProcessingDone"    -> 4

\* the step enters the AfterIf stage
EntersAfterIf == gen.stage # "AfterIf" /\ gen'.stage = "AfterIf"

\* one arm of the branch of block v runs into the other
SkipsElse(v) ==
    \/ Reaches(cfg, FalsTarget(cfg, v), TruTarget(cfg, v))
    \/ Reaches(cfg, TruTarget(cfg, v), FalsTarget(cfg, v))

\* C29: within one generator the stage only moves forward in the order
\* BeginProcessBlock, LoopCheck, IfCheck, AfterIf, ProcessingDone; AfterIf is
\* entered only from IfCheck, with an if without alternate just queued for a
\* branch one of whose arms runs into the other; and once a chained iterator
\* is installed it stays until the generator is replaced by it
C29_StagesMoveForward ==
    [][~Replaces =>
          /\ StageRank(gen'.stage) >= StageRank(gen.stage)
          /\ Populates /\ pc' = "generating" /\ gen.stage # "ProcessingDone" =>
                 StageRank(gen'.stage) > StageRank(gen.stage)
          /\ EntersAfterIf =>
                 /\ gen.stage = "IfCheck"
                 /\ Len(gen'.stmt_queue) = 1
                 /\ gen'.stmt_queue[1].t = "if"
                 /\ ~gen'.stmt_queue[1].has_alt
                 /\ gen'.after_if_node # NoIndex
                 /\ SkipsElse(gen.node)
          /\ gen.chained_iterator # NoGen =>
                 gen'.chained_iterator = gen.chained_iterator]_vars

\* a generator went through AfterIf and holds the chained iterator it installed
C29_Witness ==
    /\ pc = "generating"
    /\ gen.stage = "ProcessingDone"
    /\ gen.after_if_node # NoIndex
    /\ gen.chained_iterator # NoGen
    /\ gen.chained_iterator.node = gen.after_if_node


(***************************************************************************)
(* The two loader entry points on one buffer.                              *)
(***************************************************************************)
BothLoaded == bytes_loaded.status = "ok" /\ reader_loaded.status = "ok"

\* C30: on a buffer on which both succeed, from_bytes and from_reader over a
\* cursor on the same bytes return the same header and the same contents
\* for every table, and both read the function headers starting immediately
\* after the file header
C30_LoadersAgree ==
    BothLoaded =>
        /\ bytes_loaded.header = reader_loaded.header
        /\ bytes_loaded.tables = reader_loaded.tables
        /\ bytes_loaded.cjs_modules_statically_resolved
              = reader_loaded.cjs_modules_statically_resolved
        /\ bytes_loaded.tables_at = HeaderSize
        /\ reader_loaded.tables_at = HeaderSize

\* what the two entry points share: the header
C30_SameHeader ==
    BothLoaded =>
        /\ bytes_loaded.header = reader_loaded.header
        /\ bytes_loaded.warnings = reader_loaded.warnings

\* where from_bytes takes its tables from: function header k is bytes
\* 16(k-1) .. 16k of the buffer, the bytes of the file header itself
C30_FromBytesReadsFileHeader ==
    bytes_loaded.status = "ok" =>
        \A k \in DOMAIN bytes_loaded.tables[1] :
            bytes_loaded.tables[1][k] = SubSeq(file_bytes, 16 * (k - 1) + 1, 16 * k)

\* both succeeded on a file with a function header and a string
C30_BothLoadedTables ==
    /\ BothLoaded
    /\ reader_loaded.tables[1] # <<>>
    /\ reader_loaded.tables[4] # <<>>

====
